---- MODULE Spec2Model ----
(***************************************************************************)
(* State-machine model of sistema-sedint: the CRM module (companies,       *)
(* contacts, information logs, deletion audit trail) and the contract      *)
(* (process) services, as implemented in src/lib/crm-services.ts,          *)
(* src/lib/firebase-services.ts, src/pages/CRMDashboard.tsx,               *)
(* src/pages/Dashboard.tsx and src/components/crm/DeleteEmpresaModal.tsx.  *)
(*                                                                         *)
(* The document store is shared; every browser session is a process whose  *)
(* position (pc) advances at each await of the handler it is running.      *)
(***************************************************************************)
EXTENDS Integers, FiniteSets, Sequences, TLC

\* ------------------------------------------------------------------ bounds
MaxContatos == 2
MaxLogs == 2
MaxProcesses == 1
MaxHistory == 3

\* ------------------------------------------------------------- value sets
Sessions == {"s1", "s2"}
Nomes == {"A", "B"}
NoDoc == [exists |-> FALSE, nome_fantasia |-> "", created_by |-> ""]

\* the ids the store hands out to company documents
EmpresaIds == {1}
ProcessIds == 1..MaxProcesses
\* Process['status'] (three of its four values)
Statuses == {"pendente", "em_andamento", "concluido"}
\* a number as typed: a sequence of characters
NoNumero == <<>>
NoProcess == [exists |-> FALSE, status |-> "", created_by |-> "", numero_processo |-> NoNumero]
\* the empty snapshot {} of a history entry
NoValues == [status |-> "", numero_processo |-> NoNumero]
\* no quick-update form submitted
NoProgress == [montou_processo |-> FALSE, numero_processo |-> NoNumero]

\* ------------------------------------------------------ accounts and users
\* e-mail addresses as typed, a sequence of characters each: both sessions
\* use the same account
Emails == {<<"a", "@", "x">>}
\* what the registration form may hold as e-mail (the last has no '@')
EmailInputs == Emails \cup {<<"a", "x">>}
\* result.user.uid: one per account, accounts are never deleted
Uids == Emails
NoUid == <<>>
\* passwords as typed (the last is shorter than 6 characters)
Senha1 == <<"s", "e", "n", "h", "a", "1">>
Senha2 == <<"s", "e", "n", "h", "a", "2">>
SenhaCurta == <<"a", "b", "c">>
\* names as typed (the first has fewer than 2 characters once trimmed)
NomeCurto == <<" ", "B">>
NomeAn == <<"A", "n">>
NomeBo == <<" ", "B", "o">>
\* RegisterCredentials.role as supplied by the caller ("undefined": left out)
RoleInputs == {"admin", "user", "undefined"}
NoAccount == [exists |-> FALSE, password |-> <<>>]
NoUser == [exists |-> FALSE, role |-> "", name |-> <<>>]
NoCredentials == [name |-> <<>>, email |-> <<>>, password |-> <<>>, role |-> "undefined"]
NoProfile == [uid |-> NoUid, name |-> <<>>, currentPassword |-> <<>>,
              newPassword |-> <<>>, confirmPassword |-> <<>>]

\* ------------------------------------------------------- history snapshots
\* the fields of a snapshot (old_values / new_values of a history entry)
SnapshotKeys == {"status", "local", "data"}
\* values a field may hold: a status, a place, the empty string, an ISO date
IsoDate == "2024-05-01T10:00:00.000Z"
SnapshotValues == {"pendente", "concluido", "X", "", IsoDate}
\* oldValues[key] of a key the snapshot does not have
Undefined == "undefined"
\* a snapshot that is present: the fields it has, with their values
Snapshots ==
    {[present |-> TRUE, fields |-> f] :
        f \in UNION {[K -> SnapshotValues] : K \in SUBSET SnapshotKeys}}
\* entry.old_values of an entry written without it
NoSnapshot == [present |-> FALSE, fields |-> <<>>]
\* formatChanges returning null
NoChanges == [isNull |-> TRUE, list |-> {}]

\* ---------------------------------------------------- progress-update dialog
\* value of the date input: empty or a date
Today == "2024-05-01"
DateInputs == {"", Today}
\* what may be typed as place of a progress update
LocalInputs == {<<>>, <<" ">>, <<"X">>, <<" ", "X">>, <<"Y">>}
\* what may be typed as number of the filed process
NumeroInputs == {<<>>, <<" ">>, <<" ", "7">>}
\* QuickStatusUpdate: useState({data: '', local: '', ..., montou_processo: false,
\* numero_processo: ''})
EmptyQuickUpdate ==
    [data |-> "", local |-> <<>>, montou_processo |-> FALSE, numero_processo |-> <<>>]

\* ------------------------------------------------------------------ export
\* most history entries handed to an export
MaxExportEntries == 3
\* 'YYYY-MM-DD' strings of the date inputs
DateStrings ==
    {[year |-> 2023, month |-> 12, day |-> 31],
     [year |-> 2024, month |-> 4, day |-> 30],
     [year |-> 2024, month |-> 5, day |-> 1]}
\* the history entries an export may be handed: entries of each kind, the
\* progress updates as the dialog writes them. A text is the sequence of its
\* pieces (notes <<>>: none)
ExportEntries ==
    [action : {"created"}, data : {[year |-> 2024, month |-> 4, day |-> 30]},
     local : {"X"}, notes : {<<>>}, montou_processo : {FALSE}, numero_processo : {""}]
    \cup
    [action : {"progress_update"}, data : DateStrings, local : {"X"},
     notes : {<<>>, <<"nota">>}, montou_processo : {FALSE}, numero_processo : {""}]
    \cup
    [action : {"progress_update"}, data : DateStrings, local : {"X"},
     notes : {<<>>, <<"nota">>}, montou_processo : {TRUE}, numero_processo : {"7"}]
NoExportProcess == [data |-> [year |-> 0, month |-> 0, day |-> 0], local |-> "", status |-> ""]

\* ---- the history query
MaxHistoryDocs == 3
\* updated_at of a stored history entry: a Timestamp (its seconds), or a
\* value without toDate()
NoTimestamp == [usable |-> FALSE, seconds |-> 0]
Timestamps == {NoTimestamp} \cup [usable : {TRUE}, seconds : 1..2]
HistoryProcessIds == 1..2
\* the documents of 'process_history' in the order a query returns them; a
\* document's id is its position
HistoryCollections ==
    UNION {[1..n -> [process_id : HistoryProcessIds, updated_at : Timestamps]] :
              n \in 0..MaxHistoryDocs}

\* ---- the company form's postal code
MaxLookups == 3
CepDigits == {"1", "2"}
\* values of the CEP input: a full code typed without the hyphen, a full
\* code typed with it, a code not yet complete
CepInputs ==
    {<<"1", "1", "1", "1", "1", "1", "1", "1">>,
     <<"2", "2", "2", "2", "2", "-", "2", "2", "2">>,
     <<"1", "1", "1">>}
\* formData.endereco of a new company (the fields the lookup fills)
EmptyEndereco ==
    [logradouro |-> <<>>, bairro |-> <<>>, cidade |-> <<>>, estado |-> <<>>, cep |-> <<>>]

\* ---- the users of the CRM dashboard
UserIds == {"u1", "u2"}
\* CRMStats before the first load
NoStats == [total_empresas |-> 0, total_contatos |-> 0, total_logs |-> 0]

\* ---- the confirmation dialog
MaxConfirms == 2
\* a confirm() call of a session: the value of its promise, the button that
\* closed its dialog, the deleteProcess calls made after it
NewConfirm == [value |-> "pending", pressed |-> "none", deletes |-> 0]

\* user.email of the signed-in user (CRMDashboard props)
EmailOf(u) == IF u = "u1" THEN "u1@x" ELSE "u2@x"

\* ------------------------------------------------------- error messages
\* the fixed messages thrown by deleteEmpresa
MsgExcluirEmpresa == "Erro ao excluir empresa"
MsgNaoEncontrada == "Empresa nao encontrada"
\* what the vendor SDK rejects with (FirebaseError.message)
VendorError == "FirebaseError: unavailable"
VendorNotFound == "FirebaseError: not-found"
VendorDenied == "FirebaseError: permission-denied"

\* the modal's validation messages
MsgSenhaIncorreta == "Senha incorreta"
MsgMuitasTentativas == "Muitas tentativas. Tente novamente mais tarde."
MsgErroValidar == "Erro ao validar senha. Tente novamente."

VARIABLES
    empresas,         \* collection 'empresas': id -> document or NoDoc
    contatos,         \* collection 'contatos': set of documents
    logs_informacao,  \* collection 'logs_informacao': set of documents
    auditoria,        \* collection 'auditoria': set of documents
    nextEmpresa, nextContato, nextLog, nextAudit,  \* store-assigned ids
    user,             \* session -> signed-in user (CRMDashboard prop)
    pc,               \* session -> position in the handler it runs
    viewEmpresas,     \* session -> CRMDashboard state 'empresas' (ids loaded)
    selectedEmpresa,  \* session -> CRMDashboard state 'selectedEmpresa' (0: null)
    empresaForm,      \* session -> EmpresaForm data being saved (its nome_fantasia)
    password,         \* session -> DeleteEmpresaModal state 'password'
    validationError,  \* session -> DeleteEmpresaModal state 'validationError'
    reauth,           \* session -> outcome of signInWithEmailAndPassword in handleConfirm
    empresaData,      \* session -> deleteEmpresa local 'empresaData'
    contatosSnapshot, \* session -> deleteEmpresa local 'contatosSnapshot' (ids)
    logsSnapshot,     \* session -> deleteEmpresa local 'logsSnapshot' (ids)
    processes,        \* collection 'processes': id -> document or NoProcess
    process_history,  \* collection 'process_history': set of documents
    nextProcess, nextHistory, \* store-assigned ids
    ppc,              \* session -> position in the Dashboard handler it runs
    viewProcesses,    \* session -> Dashboard state 'processes' (ids loaded)
    processId,        \* session -> the processId the running handler was given (0: none)
    updateData,       \* session -> updateProcess argument 'data' (its status)
    oldData,          \* session -> updateProcess local 'oldData'
    completionProcess, \* session -> Dashboard state 'completionProcess' (0: null)
    progressData,     \* session -> handleQuickUpdateSubmit argument 'updateData'
    toastDescription, \* session -> description of the Dashboard's last toast
    caught,           \* session -> error caught by deleteEmpresa's catch block
    rejected,         \* session -> error the deleteEmpresa promise rejected with
                      \*            (the description of handleConfirmDelete's toast)
    accounts,         \* Firebase Auth accounts: email -> account or NoAccount
    users,            \* collection 'users': uid -> document or NoUser
    authUser,         \* session -> auth.currentUser (its uid, NoUid: null)
    currentUserId,    \* session -> AuthProvider state 'currentUser' (its id, NoUid: null)
    upc,              \* session -> position in the AuthProvider / profile handler it runs
    credentials,      \* session -> argument 'credentials' of AuthProvider.register
    profileForm,      \* session -> UserProfileModal state submitted by handleSave
    pwUser,           \* session -> changePassword local 'user' (its uid)
    reauthenticated,  \* session -> outcome of reauthenticateWithCredential in changePassword
    toasts,           \* session -> toasts issued by the last handleSave, in order
    oldValues,        \* formatChanges argument 'oldValues' of the entry rendered last
    newValues,        \* formatChanges argument 'newValues' of the entry rendered last
    changes,          \* what formatChanges returned for it
    quickUpdateData,  \* QuickStatusUpdate state 'updateData' (the dialog's form)
    quickHistory,     \* new_values of the progress_update entries added through the dialog
    exportProcess,    \* createWorksheetForProcess argument 'process' of the last export
    exportHistory,    \* createWorksheetForProcess argument 'history' of the last export
    rows,             \* createWorksheetForProcess local 'rows', sorted; field 'entry' is the
                      \* index of the history entry a row was built from, 0: the contract
    formattedRows,    \* createWorksheetForProcess local 'formattedRows': the rows of the sheet
    cards,            \* session -> the status each contract's card shows
    historyDocs,      \* getProcessHistory: the documents of 'process_history'
    historyArg,       \* getProcessHistory argument 'processId' (0: not called)
    historyResult,    \* getProcessHistory: the returned array
    endereco,         \* EmpresaForm formData.endereco (the fields the lookup fills)
    cepEntered,       \* the value of the last change of the CEP input
    lookups,          \* the buscarEnderecoPorCEP calls awaiting their fetch
    nextLookup,       \* the number of the next lookup
    buscandoCEP,      \* EmpresaForm state 'buscandoCEP'
    cepToast,         \* title of the last toast of buscarEnderecoPorCEP
    is_active,        \* uid -> the field is_active of the account's user document
    observerUser,     \* session -> the auth user the observer was last called with
    opc,              \* session -> the step its observer callback is at
    viewContatos,     \* session -> CRMDashboard state 'contatos'
    viewLogs,         \* session -> CRMDashboard state 'logs'
    stats,            \* session -> CRMDashboard state 'stats'
    confirmState,     \* session -> useConfirmDialog state (open, resolve: the promise it settles)
    confirms,         \* session -> its confirm() calls, in order
    awaited           \* session -> the confirm() call handleDeleteProcess awaits (0: none)

storeVars == <<empresas, contatos, logs_informacao, auditoria,
               nextEmpresa, nextContato, nextLog, nextAudit>>
deleteLocals == <<empresaData, contatosSnapshot, logsSnapshot>>
modalVars == <<password, validationError, reauth>>
crmVars == <<storeVars, pc, viewEmpresas, selectedEmpresa, empresaForm,
             modalVars, deleteLocals, caught, rejected>>
procStore == <<processes, process_history, nextProcess, nextHistory>>
progressLocals == <<completionProcess, progressData>>
procLocals == <<processId, updateData, oldData, progressLocals>>
procVars == <<procStore, ppc, viewProcesses, procLocals, toastDescription>>
authStore == <<accounts, users>>
authLocals == <<credentials, profileForm, pwUser, reauthenticated>>
authVars == <<authStore, authUser, currentUserId, upc, authLocals, toasts>>
historyDialogVars == <<oldValues, newValues, changes>>
quickVars == <<quickUpdateData, quickHistory>>
exportVars == <<exportProcess, exportHistory, rows, formattedRows>>
cardVars == <<cards>>
historyQueryVars == <<historyDocs, historyArg, historyResult>>
cepVars == <<endereco, cepEntered, lookups, nextLookup, buscandoCEP, cepToast>>
observerVars == <<is_active, observerUser, opc>>
crmListVars == <<viewContatos, viewLogs, stats>>
confirmVars == <<confirmState, confirms, awaited>>
uiVars == <<historyDialogVars, quickVars, exportVars, cardVars, historyQueryVars, cepVars, observerVars, crmListVars, confirmVars>>
vars == <<user, crmVars, procVars, authVars, uiVars>>

\* ----------------------------------------------------------------- queries
\* where('empresa_id', '==', id) on 'contatos'
ContatosDe(e) == {c \in contatos : c.empresa_id = e}
\* where('empresa_id', '==', id) on 'logs_informacao'
LogsDe(e) == {l \in logs_informacao : l.empresa_id = e}
\* where('created_by', '==', user.id) on 'empresas' (loadCRMData)
EmpresasDoUsuario(u) ==
    {e \in EmpresaIds : empresas[e].exists /\ empresas[e].created_by = u}

AuditoriaDe(e) == {a \in auditoria : a.empresa_id = e}

\* -------------------------------------------------------------------- Init
Init ==
    /\ empresas = [e \in EmpresaIds |-> NoDoc]
    /\ contatos = {}
    /\ logs_informacao = {}
    /\ auditoria = {}
    /\ nextEmpresa = 1
    /\ nextContato = 1
    /\ nextLog = 1
    /\ nextAudit = 1
    /\ user = [s \in Sessions |-> "u1"]
    /\ pc = [s \in Sessions |-> "idle"]
    /\ viewEmpresas = [s \in Sessions |-> {}]
    /\ selectedEmpresa = [s \in Sessions |-> 0]
    /\ empresaForm = [s \in Sessions |-> ""]
    /\ password = [s \in Sessions |-> ""]
    /\ validationError = [s \in Sessions |-> ""]
    /\ reauth = [s \in Sessions |-> "none"]
    /\ empresaData = [s \in Sessions |-> NoDoc]
    /\ contatosSnapshot = [s \in Sessions |-> {}]
    /\ logsSnapshot = [s \in Sessions |-> {}]
    /\ caught = [s \in Sessions |-> "none"]
    /\ processes = [p \in ProcessIds |-> NoProcess]
    /\ process_history = {}
    /\ nextProcess = 1
    /\ nextHistory = 1
    /\ ppc = [s \in Sessions |-> "idle"]
    /\ viewProcesses = [s \in Sessions |-> {}]
    /\ processId = [s \in Sessions |-> 0]
    /\ updateData = [s \in Sessions |-> ""]
    /\ oldData = [s \in Sessions |-> NoProcess]
    /\ completionProcess = [s \in Sessions |-> 0]
    /\ progressData = [s \in Sessions |-> NoProgress]
    /\ toastDescription = [s \in Sessions |-> "none"]
    /\ rejected = [s \in Sessions |-> "none"]
    /\ accounts = [e \in Emails |-> NoAccount]
    /\ users = [u \in Uids |-> NoUser]
    /\ authUser = [s \in Sessions |-> NoUid]
    /\ currentUserId = [s \in Sessions |-> NoUid]
    /\ upc = [s \in Sessions |-> "idle"]
    /\ credentials = [s \in Sessions |-> NoCredentials]
    /\ profileForm = [s \in Sessions |-> NoProfile]
    /\ pwUser = [s \in Sessions |-> NoUid]
    /\ reauthenticated = [s \in Sessions |-> "none"]
    /\ toasts = [s \in Sessions |-> <<>>]
    /\ oldValues = NoSnapshot
    /\ newValues = NoSnapshot
    /\ changes = NoChanges
    /\ quickUpdateData = EmptyQuickUpdate
    /\ quickHistory = {}
    /\ exportProcess = NoExportProcess
    /\ exportHistory = <<>>
    /\ rows = <<>>
    /\ formattedRows = <<>>
    /\ cards = [k \in Sessions |-> [p \in ProcessIds |-> ""]]
    /\ historyDocs = <<>>
    /\ historyArg = 0
    /\ historyResult = <<>>
    /\ endereco = EmptyEndereco
    /\ cepEntered = <<>>
    /\ lookups = {}
    /\ nextLookup = 1
    /\ buscandoCEP = FALSE
    /\ cepToast = ""
    /\ is_active = [uid \in Emails |-> TRUE]
    /\ observerUser = [k \in Sessions |-> NoUid]
    /\ opc = [k \in Sessions |-> "idle"]
    /\ viewContatos = [k \in Sessions |-> {}]
    /\ viewLogs = [k \in Sessions |-> {}]
    /\ stats = [k \in Sessions |-> NoStats]
    /\ confirmState = [k \in Sessions |-> [open |-> FALSE, resolve |-> 0]]
    /\ confirms = [k \in Sessions |-> <<>>]
    /\ awaited = [k \in Sessions |-> 0]

\* ----------------------------------------------------------- loadCRMData
\* CRMDashboard.loadCRMData: getEmpresas where created_by == user.id (when the
\* store rejects, the catch block leaves the loaded lists as they were)
LoadCRMData(k) ==
    /\ pc[k] = "idle"
    /\ viewEmpresas' = [viewEmpresas EXCEPT ![k] = EmpresasDoUsuario(user[k])]
    /\ UNCHANGED <<storeVars, user, empresaForm, pc, selectedEmpresa, modalVars,
                   deleteLocals, caught, rejected>>
    /\ UNCHANGED <<procVars, authVars, uiVars>>

\* ------------------------------------------------- create / update company
\* EmpresaForm.handleSubmit -> handleSaveEmpresa -> empresaService.createEmpresa
\* (addDoc) -> loadCRMData; when addDoc rejects nothing is written or reloaded
HandleSaveEmpresaNew(k, nome) ==
    /\ pc[k] = "idle"
    /\ nextEmpresa \in EmpresaIds
    /\ empresas' = [empresas EXCEPT ![nextEmpresa] =
           [exists |-> TRUE, nome_fantasia |-> nome, created_by |-> user[k]]]
    /\ nextEmpresa' = nextEmpresa + 1
    /\ viewEmpresas' = [viewEmpresas EXCEPT ![k] =
           EmpresasDoUsuario(user[k]) \cup {nextEmpresa}]
    /\ UNCHANGED <<contatos, logs_informacao, auditoria, nextContato,
                   nextLog, nextAudit, user, empresaForm, pc, selectedEmpresa, modalVars,
                   deleteLocals, caught, rejected>>
    /\ UNCHANGED <<procVars, authVars, uiVars>>

\* CRMDashboard.handleEditEmpresa, then EmpresaForm.handleSubmit ->
\* handleSaveEmpresa up to await empresaService.updateEmpresa(selectedEmpresa.id, ...)
HandleSaveEmpresaEdit(k, e, nome) ==
    /\ pc[k] = "idle"
    /\ e \in viewEmpresas[k]
    /\ selectedEmpresa' = [selectedEmpresa EXCEPT ![k] = e]
    /\ empresaForm' = [empresaForm EXCEPT ![k] = nome]
    /\ pc' = [pc EXCEPT ![k] = "save_updateDoc"]
    /\ UNCHANGED <<storeVars, user, viewEmpresas, modalVars, deleteLocals,
                   caught, rejected>>
    /\ UNCHANGED <<procVars, authVars, uiVars>>

\* what updateDoc(docRef, updateData) rejects with ("none": the store applies
\* the update); updateDoc requires the document to exist and nothing else
EmpresaUpdateError(k, fault) ==
    IF fault THEN VendorError
    ELSE IF ~empresas[selectedEmpresa[k]].exists THEN VendorNotFound
    ELSE "none"

\* updateEmpresa: await updateDoc(docRef, updateData), then handleSaveEmpresa:
\* await loadCRMData(), close the form, clear the selection. When updateDoc
\* rejects the form shows its fixed error toast and is closed by the user.
UpdateEmpresaSettles(k, fault) ==
    /\ pc[k] = "save_updateDoc"
    /\ IF EmpresaUpdateError(k, fault) # "none"
       THEN UNCHANGED <<empresas, viewEmpresas>>
       ELSE /\ empresas' = [empresas EXCEPT ![selectedEmpresa[k]].nome_fantasia =
                   empresaForm[k]]
            /\ viewEmpresas' = [viewEmpresas EXCEPT ![k] = EmpresasDoUsuario(user[k])]
    /\ selectedEmpresa' = [selectedEmpresa EXCEPT ![k] = 0]
    /\ empresaForm' = [empresaForm EXCEPT ![k] = ""]
    /\ pc' = [pc EXCEPT ![k] = "idle"]
    /\ UNCHANGED <<contatos, logs_informacao, auditoria, nextEmpresa,
                   nextContato, nextLog, nextAudit, user, modalVars,
                   deleteLocals, caught, rejected>>
    /\ UNCHANGED <<procVars, authVars, uiVars>>

\* ------------------------------------------------- create contact / log
\* ContatoForm.handleSubmit (empresa_id: empresa.id) -> handleSaveContato ->
\* contatoService.createContato (addDoc) -> loadCRMData
HandleSaveContato(k, e) ==
    /\ pc[k] = "idle"
    /\ e \in viewEmpresas[k]
    /\ nextContato <= MaxContatos
    /\ contatos' = contatos \cup
           {[id |-> nextContato, empresa_id |-> e, created_by |-> user[k]]}
    /\ nextContato' = nextContato + 1
    /\ viewEmpresas' = [viewEmpresas EXCEPT ![k] = EmpresasDoUsuario(user[k])]
    /\ UNCHANGED <<empresas, logs_informacao, auditoria, nextEmpresa,
                   nextLog, nextAudit, user, empresaForm, pc, selectedEmpresa, modalVars,
                   deleteLocals, caught, rejected>>
    /\ UNCHANGED <<procVars, authVars, uiVars>>

\* LogInformacaoForm.handleSubmit -> handleSaveLog ->
\* logInformacaoService.createLog (addDoc) -> loadCRMData
HandleSaveLog(k, e) ==
    /\ pc[k] = "idle"
    /\ e \in viewEmpresas[k]
    /\ nextLog <= MaxLogs
    /\ logs_informacao' = logs_informacao \cup
           {[id |-> nextLog, empresa_id |-> e, created_by |-> user[k]]}
    /\ nextLog' = nextLog + 1
    /\ viewEmpresas' = [viewEmpresas EXCEPT ![k] = EmpresasDoUsuario(user[k])]
    /\ UNCHANGED <<empresas, contatos, auditoria, nextEmpresa,
                   nextContato, nextAudit, user, empresaForm, pc, selectedEmpresa, modalVars,
                   deleteLocals, caught, rejected>>
    /\ UNCHANGED <<procVars, authVars, uiVars>>

\* ------------------------------------------------------ the delete modal
\* CRMDashboard.handleDeleteEmpresa: select the company, open the modal
HandleDeleteEmpresa(k, e) ==
    /\ pc[k] = "idle"
    /\ e \in viewEmpresas[k]
    /\ selectedEmpresa' = [selectedEmpresa EXCEPT ![k] = e]
    /\ pc' = [pc EXCEPT ![k] = "modal"]
    /\ UNCHANGED <<storeVars, user, empresaForm, viewEmpresas, modalVars,
                   deleteLocals, caught, rejected>>
    /\ UNCHANGED <<procVars, authVars, uiVars>>

\* DeleteEmpresaModal.handlePasswordChange
HandlePasswordChange(k, value) ==
    /\ pc[k] = "modal"
    /\ value # password[k]
    /\ password' = [password EXCEPT ![k] = value]
    /\ validationError' = [validationError EXCEPT ![k] = ""]
    /\ reauth' = [reauth EXCEPT ![k] = "none"]
    /\ caught' = [caught EXCEPT ![k] = "none"]
    /\ rejected' = [rejected EXCEPT ![k] = "none"]
    /\ UNCHANGED <<storeVars, user, empresaForm, pc, viewEmpresas, selectedEmpresa,
                   deleteLocals>>
    /\ UNCHANGED <<procVars, authVars, uiVars>>

\* DeleteEmpresaModal.handleClose -> onClose (the modal unmounts)
HandleClose(k) ==
    /\ pc[k] = "modal"
    /\ password' = [password EXCEPT ![k] = ""]
    /\ validationError' = [validationError EXCEPT ![k] = ""]
    /\ reauth' = [reauth EXCEPT ![k] = "none"]
    /\ caught' = [caught EXCEPT ![k] = "none"]
    /\ rejected' = [rejected EXCEPT ![k] = "none"]
    /\ selectedEmpresa' = [selectedEmpresa EXCEPT ![k] = 0]
    /\ pc' = [pc EXCEPT ![k] = "idle"]
    /\ UNCHANGED <<storeVars, user, empresaForm, viewEmpresas, deleteLocals>>
    /\ UNCHANGED <<procVars, authVars, uiVars>>

\* DeleteEmpresaModal.handleConfirm up to its first await; currentUser is
\* auth.currentUser at that moment. The confirm button is disabled while the
\* password is blank.
HandleConfirm(k, currentUser) ==
    /\ pc[k] = "modal"
    /\ password[k] # ""
    /\ reauth' = [reauth EXCEPT ![k] = "none"]
    /\ caught' = [caught EXCEPT ![k] = "none"]
    /\ rejected' = [rejected EXCEPT ![k] = "none"]
    /\ IF ~currentUser
       THEN \* throw new Error('Usuario nao encontrado'): an error without 'code'
            /\ validationError' = [validationError EXCEPT ![k] = MsgErroValidar]
            /\ UNCHANGED pc
       ELSE /\ validationError' = [validationError EXCEPT ![k] = ""]
            /\ pc' = [pc EXCEPT ![k] = "reauth"]
    /\ UNCHANGED <<storeVars, user, empresaForm, viewEmpresas, selectedEmpresa,
                   password, deleteLocals>>
    /\ UNCHANGED <<procVars, authVars, uiVars>>

\* the codes signInWithEmailAndPassword can answer for a password
ReauthOutcomes(pw) ==
    IF pw = "right" THEN {"ok", "auth/too-many-requests", "auth/network-request-failed"}
    ELSE {"auth/wrong-password", "auth/too-many-requests", "auth/network-request-failed"}

\* the catch block of handleConfirm, for an error carrying a 'code'
ValidationMessage(code) ==
    IF code = "auth/wrong-password" THEN MsgSenhaIncorreta
    ELSE IF code = "auth/too-many-requests" THEN MsgMuitasTentativas
    ELSE MsgErroValidar

\* a handleConfirm that awaits onConfirm whatever the sign-in answered
AfterReauthUnchecked(k, outcome) ==
    /\ pc' = [pc EXCEPT ![k] = "del_getDoc"]
    /\ UNCHANGED validationError

\* what handleConfirm does once signInWithEmailAndPassword has settled:
\* await onConfirm(password) (handleConfirmDelete -> deleteEmpresa) or the catch
AfterReauth(k, outcome) ==
    IF outcome = "ok"
    THEN /\ pc' = [pc EXCEPT ![k] = "del_getDoc"]
         /\ UNCHANGED validationError
    ELSE /\ pc' = [pc EXCEPT ![k] = "modal"]
         /\ validationError' = [validationError EXCEPT ![k] = ValidationMessage(outcome)]

\* signInWithEmailAndPassword settles
ReauthSettles(k) ==
    /\ pc[k] = "reauth"
    /\ \E outcome \in ReauthOutcomes(password[k]) :
          /\ reauth' = [reauth EXCEPT ![k] = outcome]
          /\ AfterReauth(k, outcome)
    /\ UNCHANGED <<storeVars, user, empresaForm, viewEmpresas, selectedEmpresa,
                   password, deleteLocals, caught, rejected>>
    /\ UNCHANGED <<procVars, authVars, uiVars>>

\* ------------------------------------------- empresaService.deleteEmpresa
\* catch (error) { throw new Error('Erro ao excluir empresa') }
Rethrown(error) == MsgExcluirEmpresa

\* deleteEmpresa rejects: its catch block, then handleConfirmDelete's catch
\* (toast with error.message, rethrow), then handleConfirm's catch (the error
\* has no 'code')
DeleteFails(k, error) ==
    /\ caught' = [caught EXCEPT ![k] = error]
    /\ rejected' = [rejected EXCEPT ![k] = Rethrown(error)]
    /\ validationError' = [validationError EXCEPT ![k] = MsgErroValidar]
    /\ pc' = [pc EXCEPT ![k] = "modal"]
    /\ empresaData' = [empresaData EXCEPT ![k] = NoDoc]
    /\ contatosSnapshot' = [contatosSnapshot EXCEPT ![k] = {}]
    /\ logsSnapshot' = [logsSnapshot EXCEPT ![k] = {}]

\* a deleteEmpresa without the existence check
EmpresaFoundUnchecked(k) == TRUE

\* the existence check after getDoc(empresaRef)
EmpresaFound(k) == empresas[selectedEmpresa[k]].exists

\* 1. getDoc(empresaRef); if (!empresaDoc.exists()) throw
DeleteGetDoc(k, fault) ==
    /\ pc[k] = "del_getDoc"
    /\ IF fault THEN DeleteFails(k, VendorError)
       ELSE IF ~EmpresaFound(k) THEN DeleteFails(k, MsgNaoEncontrada)
       ELSE /\ empresaData' = [empresaData EXCEPT ![k] = empresas[selectedEmpresa[k]]]
            /\ pc' = [pc EXCEPT ![k] = "del_getContatos"]
            /\ UNCHANGED <<caught, rejected, validationError,
                           contatosSnapshot, logsSnapshot>>
    /\ UNCHANGED <<storeVars, user, empresaForm, viewEmpresas, selectedEmpresa,
                   password, reauth>>
    /\ UNCHANGED <<procVars, authVars, uiVars>>

\* 2. getDocs(contatos where empresa_id == id)
DeleteGetContatos(k, fault) ==
    /\ pc[k] = "del_getContatos"
    /\ IF fault THEN DeleteFails(k, VendorError)
       ELSE /\ contatosSnapshot' = [contatosSnapshot EXCEPT ![k] =
                   {c.id : c \in ContatosDe(selectedEmpresa[k])}]
            /\ pc' = [pc EXCEPT ![k] = "del_getLogs"]
            /\ UNCHANGED <<caught, rejected, validationError,
                           empresaData, logsSnapshot>>
    /\ UNCHANGED <<storeVars, user, empresaForm, viewEmpresas, selectedEmpresa,
                   password, reauth>>
    /\ UNCHANGED <<procVars, authVars, uiVars>>

\* 3. getDocs(logs_informacao where empresa_id == id)
DeleteGetLogs(k, fault) ==
    /\ pc[k] = "del_getLogs"
    /\ IF fault THEN DeleteFails(k, VendorError)
       ELSE /\ logsSnapshot' = [logsSnapshot EXCEPT ![k] =
                   {l.id : l \in LogsDe(selectedEmpresa[k])}]
            /\ pc' = [pc EXCEPT ![k] = "del_commit"]
            /\ UNCHANGED <<caught, rejected, validationError,
                           empresaData, contatosSnapshot>>
    /\ UNCHANGED <<storeVars, user, empresaForm, viewEmpresas, selectedEmpresa,
                   password, reauth>>
    /\ UNCHANGED <<procVars, authVars, uiVars>>

\* an audit document written under the company's id instead of a fresh one
AuditRecordKeyedByEmpresa(k) ==
    [id |-> selectedEmpresa[k],
     tipo |-> "exclusao_empresa",
     empresa_id |-> selectedEmpresa[k],
     empresa_nome |-> empresaData[k].nome_fantasia,
     contatos_excluidos |-> Cardinality(contatosSnapshot[k]),
     logs_excluidos |-> Cardinality(logsSnapshot[k]),
     usuario_id |-> user[k],
     usuario_email |-> EmailOf(user[k])]

\* 7. the audit document set in the batch
AuditRecord(k) ==
    [id |-> nextAudit,
     tipo |-> "exclusao_empresa",
     empresa_id |-> selectedEmpresa[k],
     empresa_nome |-> empresaData[k].nome_fantasia,
     contatos_excluidos |-> Cardinality(contatosSnapshot[k]),
     logs_excluidos |-> Cardinality(logsSnapshot[k]),
     usuario_id |-> user[k],
     usuario_email |-> EmailOf(user[k])]

\* a batch that leaves the information logs out
BatchCommitWithoutLogs(k) ==
    /\ contatos' = {c \in contatos : c.id \notin contatosSnapshot[k]}
    /\ empresas' = [empresas EXCEPT ![selectedEmpresa[k]] = NoDoc]
    /\ auditoria' = auditoria \cup
           {[id |-> nextAudit,
             tipo |-> "exclusao_empresa",
             empresa_id |-> selectedEmpresa[k],
             empresa_nome |-> empresaData[k].nome_fantasia,
             contatos_excluidos |-> Cardinality(contatosSnapshot[k]),
             logs_excluidos |-> Cardinality(logsSnapshot[k]),
             usuario_id |-> user[k],
             usuario_email |-> EmailOf(user[k])]}
    /\ nextAudit' = nextAudit + 1
    /\ UNCHANGED <<logs_informacao, nextEmpresa, nextContato, nextLog>>

\* 4.-8. the batch applied by a commit the store accepts: the deletes carry
\* no precondition; batch.set writes the audit document under its id, which
\* doc(collection(db, 'auditoria')) made fresh
BatchCommit(k) ==
    /\ contatos' = {c \in contatos : c.id \notin contatosSnapshot[k]}
    /\ logs_informacao' = {l \in logs_informacao : l.id \notin logsSnapshot[k]}
    /\ empresas' = [empresas EXCEPT ![selectedEmpresa[k]] = NoDoc]
    /\ auditoria' = {a \in auditoria : a.id # AuditRecord(k).id} \cup {AuditRecord(k)}
    /\ nextAudit' = nextAudit + 1
    /\ UNCHANGED <<nextEmpresa, nextContato, nextLog>>

\* writes issued one by one instead of in a batch: the contact deletes are
\* applied before the failure
BatchRejectedPartial(k) ==
    /\ contatos' = {c \in contatos : c.id \notin contatosSnapshot[k]}
    /\ UNCHANGED <<empresas, logs_informacao, auditoria,
                   nextEmpresa, nextContato, nextLog, nextAudit>>

\* the store after a commit that was rejected
BatchRejected(k) == UNCHANGED storeVars

\* a commit that re-validates the company's existence
CommitErrorRevalidating(k, fault) ==
    IF fault THEN VendorDenied
    ELSE IF ~empresas[selectedEmpresa[k]].exists THEN VendorNotFound
    ELSE "none"

\* the error batch.commit() rejects with ("none": the store accepts the
\* batch); the batch holds deletes and a set, which carry no precondition, so
\* only a fault of the store rejects it
CommitError(k, fault) == IF fault THEN VendorDenied ELSE "none"

\* 8. await batch.commit(), then handleConfirmDelete's success toast
DeleteCommit(k, fault) ==
    /\ pc[k] = "del_commit"
    /\ IF CommitError(k, fault) = "none"
       THEN /\ BatchCommit(k)
            /\ pc' = [pc EXCEPT ![k] = "del_reload"]
            /\ UNCHANGED <<caught, rejected, validationError, deleteLocals>>
       ELSE /\ BatchRejected(k)
            /\ DeleteFails(k, CommitError(k, fault))
    /\ UNCHANGED <<user, empresaForm, viewEmpresas, selectedEmpresa, password, reauth>>
    /\ UNCHANGED <<procVars, authVars, uiVars>>

\* handleConfirmDelete after the toast: await loadCRMData(), close the modal,
\* clear the selection; handleConfirm then clears the form
DeleteReload(k, fault) ==
    /\ pc[k] = "del_reload"
    /\ viewEmpresas' = [viewEmpresas EXCEPT ![k] =
           IF fault THEN @ ELSE EmpresasDoUsuario(user[k])]
    /\ selectedEmpresa' = [selectedEmpresa EXCEPT ![k] = 0]
    /\ password' = [password EXCEPT ![k] = ""]
    /\ validationError' = [validationError EXCEPT ![k] = ""]
    /\ reauth' = [reauth EXCEPT ![k] = "none"]
    /\ empresaData' = [empresaData EXCEPT ![k] = NoDoc]
    /\ contatosSnapshot' = [contatosSnapshot EXCEPT ![k] = {}]
    /\ logsSnapshot' = [logsSnapshot EXCEPT ![k] = {}]
    /\ pc' = [pc EXCEPT ![k] = "idle"]
    /\ UNCHANGED <<storeVars, user, empresaForm, caught, rejected>>
    /\ UNCHANGED <<procVars, authVars, uiVars>>

\* ---------------------------------------------------------------- CRM spec
\* the CRM dashboard (CRMDashboard and its modal) over the shared store
Next ==
    \/ \E k \in Sessions : LoadCRMData(k)
    \/ \E k \in Sessions, nome \in Nomes : HandleSaveEmpresaNew(k, nome)
    \/ \E k \in Sessions, e \in EmpresaIds, nome \in Nomes : HandleSaveEmpresaEdit(k, e, nome)
    \/ \E k \in Sessions, fault \in BOOLEAN : UpdateEmpresaSettles(k, fault)
    \/ \E k \in Sessions, e \in EmpresaIds : HandleSaveContato(k, e)
    \/ \E k \in Sessions, e \in EmpresaIds : HandleSaveLog(k, e)
    \/ \E k \in Sessions, e \in EmpresaIds : HandleDeleteEmpresa(k, e)
    \/ \E k \in Sessions, value \in {"", "right", "wrong"} : HandlePasswordChange(k, value)
    \/ \E k \in Sessions : HandleClose(k)
    \/ \E k \in Sessions, currentUser \in BOOLEAN : HandleConfirm(k, currentUser)
    \/ \E k \in Sessions : ReauthSettles(k)
    \/ \E k \in Sessions, fault \in BOOLEAN : DeleteGetDoc(k, fault)
    \/ \E k \in Sessions, fault \in BOOLEAN : DeleteGetContatos(k, fault)
    \/ \E k \in Sessions, fault \in BOOLEAN : DeleteGetLogs(k, fault)
    \/ \E k \in Sessions, fault \in BOOLEAN : DeleteCommit(k, fault)
    \/ \E k \in Sessions, fault \in BOOLEAN : DeleteReload(k, fault)

Spec == Init /\ [][Next]_vars

\* =========================================================== process services
\* the fixed descriptions of the Dashboard's success toasts
MsgContratoCriado == "O novo contrato foi criado com sucesso."
MsgContratoAtualizado == "O contrato foi atualizado com sucesso."
MsgContratoExcluido == "foi excluido com sucesso."
\* the fallbacks of the Dashboard's catch blocks (err.message || fallback)
MsgSalvarContrato == "Nao foi possivel salvar o contrato. Tente novamente."
MsgExcluirContrato == "Nao foi possivel excluir o contrato. Tente novamente."
MsgContratoConcluido == "O contrato foi marcado como concluido com sucesso."
MsgConcluirContrato == "Nao foi possivel concluir o contrato. Tente novamente."
MsgAndamentoSalvo == "Andamento salvo."
MsgRegistrarAndamento == "Nao foi possivel registrar o andamento. Tente novamente."

\* what the quick-update form can hold in its number field
Numeros == {<<>>, <<" ">>, <<" ", "7">>}

\* String.prototype.trim on a sequence of characters
RECURSIVE TrimStart(_)
TrimStart(s) == IF s # <<>> /\ Head(s) = " " THEN TrimStart(Tail(s)) ELSE s
RECURSIVE TrimEnd(_)
TrimEnd(s) ==
    IF s # <<>> /\ s[Len(s)] = " " THEN TrimEnd(SubSeq(s, 1, Len(s) - 1)) ELSE s
Trim(s) == TrimEnd(TrimStart(s))

\* where('created_by', '==', user.id) on 'processes'
ProcessesDoUsuario(u) ==
    {p \in ProcessIds : processes[p].exists /\ processes[p].created_by = u}

\* firebaseUtils.sanitizeForHistory on the fields the model keeps
SanitizeForHistory(data) ==
    [status |-> data.status, numero_processo |-> data.numero_processo]

\* the handlers that have still to write their history entry
HistoryPending ==
    {k \in Sessions : ppc[k] \in {"create_addDoc", "create_history",
                                  "update_getDoc", "update_updateDoc", "update_history",
                                  "confirm", "delete_deleteDoc", "delete_history",
                                  "progress_updateDoc", "progress_history"}}

\* room in 'process_history' for one more handler to run to its end
HistoryRoom == nextHistory + Cardinality(HistoryPending) <= MaxHistory

\* err.message || fallback in the Dashboard's catch blocks
ToastOf(message, fallback) == IF message = "" THEN fallback ELSE message

\* the handler's catch block: a destructive toast carrying err.message
ProcessFails(k, message, fallback) ==
    /\ toastDescription' = [toastDescription EXCEPT ![k] = ToastOf(message, fallback)]
    /\ ppc' = [ppc EXCEPT ![k] = "idle"]
    /\ processId' = [processId EXCEPT ![k] = 0]
    /\ updateData' = [updateData EXCEPT ![k] = ""]
    /\ oldData' = [oldData EXCEPT ![k] = NoProcess]
    /\ completionProcess' = [completionProcess EXCEPT ![k] = 0]
    /\ progressData' = [progressData EXCEPT ![k] = NoProgress]

\* the handler ends with its success toast
ProcessDone(k, message) ==
    /\ toastDescription' = [toastDescription EXCEPT ![k] = message]
    /\ ppc' = [ppc EXCEPT ![k] = "idle"]
    /\ processId' = [processId EXCEPT ![k] = 0]
    /\ updateData' = [updateData EXCEPT ![k] = ""]
    /\ oldData' = [oldData EXCEPT ![k] = NoProcess]
    /\ completionProcess' = [completionProcess EXCEPT ![k] = 0]
    /\ progressData' = [progressData EXCEPT ![k] = NoProgress]

\* an addToHistory that keeps one entry per contract, written under the
\* contract's id
AddToHistoryKeyedByProcess(process_id, action, old_values, new_values) ==
    /\ process_history' = {h \in process_history : h.process_id # process_id} \cup
           {[id |-> nextHistory, process_id |-> process_id, action |-> action,
             old_values |-> old_values, new_values |-> new_values]}
    /\ nextHistory' = nextHistory + 1

\* processService.addToHistory: addDoc on 'process_history'
AddToHistory(process_id, action, old_values, new_values) ==
    /\ process_history' = process_history \cup
           {[id |-> nextHistory, process_id |-> process_id, action |-> action,
             old_values |-> old_values, new_values |-> new_values]}
    /\ nextHistory' = nextHistory + 1

\* the onSnapshot listener of subscribeToProcesses calls back with the
\* user's processes
SubscriptionCallback(k) ==
    /\ viewProcesses[k] # ProcessesDoUsuario(user[k])
    /\ viewProcesses' = [viewProcesses EXCEPT ![k] = ProcessesDoUsuario(user[k])]
    /\ UNCHANGED <<procStore, ppc, procLocals, toastDescription>>
    /\ UNCHANGED <<user, crmVars, authVars, uiVars>>

\* Dashboard.handleSaveProcess without a selected process, up to
\* await processService.createProcess
HandleSaveProcessNew(k, status) ==
    /\ ppc[k] = "idle"
    /\ nextProcess + Cardinality({s \in Sessions : ppc[s] = "create_addDoc"}) <= MaxProcesses
    /\ HistoryRoom
    /\ ppc' = [ppc EXCEPT ![k] = "create_addDoc"]
    /\ updateData' = [updateData EXCEPT ![k] = status]
    /\ toastDescription' = [toastDescription EXCEPT ![k] = "none"]
    /\ UNCHANGED <<procStore, viewProcesses, processId, oldData, progressLocals>>
    /\ UNCHANGED <<user, crmVars, authVars, uiVars>>

\* createProcess: await addDoc(collection(db, 'processes'), ...)
CreateAddDoc(k, fault) ==
    /\ ppc[k] = "create_addDoc"
    /\ IF fault
       THEN /\ ProcessFails(k, VendorError, MsgSalvarContrato)
            /\ UNCHANGED procStore
       ELSE /\ processes' = [processes EXCEPT ![nextProcess] =
                   [exists |-> TRUE, status |-> updateData[k], created_by |-> user[k],
                    numero_processo |-> NoNumero]]
            /\ nextProcess' = nextProcess + 1
            /\ processId' = [processId EXCEPT ![k] = nextProcess]
            /\ ppc' = [ppc EXCEPT ![k] = "create_history"]
            /\ UNCHANGED <<process_history, nextHistory, updateData, oldData,
                           progressLocals, toastDescription>>
    /\ UNCHANGED viewProcesses
    /\ UNCHANGED <<user, crmVars, authVars, uiVars>>

\* createProcess: await this.addToHistory({action: 'created', ...}), then the
\* handler's success toast
CreateAddToHistory(k, fault) ==
    /\ ppc[k] = "create_history"
    /\ IF fault
       THEN /\ ProcessFails(k, VendorError, MsgSalvarContrato)
            /\ UNCHANGED <<process_history, nextHistory>>
       ELSE /\ AddToHistory(processId[k], "created", NoValues,
                            SanitizeForHistory([status |-> updateData[k],
                                                numero_processo |-> NoNumero]))
            /\ ProcessDone(k, MsgContratoCriado)
    /\ UNCHANGED <<processes, nextProcess, viewProcesses>>
    /\ UNCHANGED <<user, crmVars, authVars, uiVars>>

\* Dashboard.handleSaveProcess with a selected process, up to
\* await processService.updateProcess(selectedProcess.id, ...)
HandleSaveProcessEdit(k, p, status) ==
    /\ ppc[k] = "idle"
    /\ p \in viewProcesses[k]
    /\ HistoryRoom
    /\ ppc' = [ppc EXCEPT ![k] = "update_getDoc"]
    /\ processId' = [processId EXCEPT ![k] = p]
    /\ updateData' = [updateData EXCEPT ![k] = status]
    /\ toastDescription' = [toastDescription EXCEPT ![k] = "none"]
    /\ UNCHANGED <<procStore, viewProcesses, oldData, progressLocals>>
    /\ UNCHANGED <<user, crmVars, authVars, uiVars>>

\* Dashboard.handleCompleteProcess, then handleConfirmCompletion up to
\* await processService.updateProcess(processId, {status: 'concluido', ...})
HandleConfirmCompletion(k, p) ==
    /\ ppc[k] = "idle"
    /\ p \in viewProcesses[k]
    /\ HistoryRoom
    /\ ppc' = [ppc EXCEPT ![k] = "update_getDoc"]
    /\ processId' = [processId EXCEPT ![k] = p]
    /\ updateData' = [updateData EXCEPT ![k] = "concluido"]
    /\ completionProcess' = [completionProcess EXCEPT ![k] = p]
    /\ toastDescription' = [toastDescription EXCEPT ![k] = "none"]
    /\ UNCHANGED <<procStore, viewProcesses, oldData, progressData>>
    /\ UNCHANGED <<user, crmVars, authVars, uiVars>>

\* the success description of the handler that called updateProcess
UpdateDoneMessage(k) ==
    IF completionProcess[k] # 0 THEN MsgContratoConcluido ELSE MsgContratoAtualizado

\* the catch fallback of the handler that called updateProcess
UpdateFallback(k) ==
    IF completionProcess[k] # 0 THEN MsgConcluirContrato ELSE MsgSalvarContrato

\* updateProcess: const oldData = await this.getProcessById(id) (null when the
\* document does not exist)
UpdateGetProcessById(k, fault) ==
    /\ ppc[k] = "update_getDoc"
    /\ IF fault
       THEN ProcessFails(k, VendorError, UpdateFallback(k))
       ELSE /\ oldData' = [oldData EXCEPT ![k] = processes[processId[k]]]
            /\ ppc' = [ppc EXCEPT ![k] = "update_updateDoc"]
            /\ UNCHANGED <<processId, updateData, progressLocals, toastDescription>>
    /\ UNCHANGED <<procStore, viewProcesses>>
    /\ UNCHANGED <<user, crmVars, authVars, uiVars>>

\* an updateDoc guarded by a version check: rejected when the document is
\* no longer the one getProcessById read
UpdateErrorVersioned(k, fault) ==
    IF fault THEN VendorError
    ELSE IF ~processes[processId[k]].exists THEN VendorNotFound
    ELSE IF processes[processId[k]] # oldData[k] THEN VendorDenied
    ELSE "none"

\* what updateDoc rejects with ("none": the store accepts the update);
\* updateDoc requires the document to exist
UpdateError(k, fault) ==
    IF fault THEN VendorError
    ELSE IF ~processes[processId[k]].exists THEN VendorNotFound
    ELSE "none"

\* updateProcess: await updateDoc(processRef, ...); without oldData the
\* history entry is skipped and the handler ends with its success toast
UpdateUpdateDoc(k, fault) ==
    /\ ppc[k] = "update_updateDoc"
    /\ IF UpdateError(k, fault) # "none"
       THEN /\ ProcessFails(k, UpdateError(k, fault), UpdateFallback(k))
            /\ UNCHANGED processes
       ELSE /\ processes' = [processes EXCEPT ![processId[k]].status = updateData[k]]
            /\ IF oldData[k].exists
               THEN /\ ppc' = [ppc EXCEPT ![k] = "update_history"]
                    /\ UNCHANGED <<procLocals, toastDescription>>
               ELSE ProcessDone(k, UpdateDoneMessage(k))
    /\ UNCHANGED <<process_history, nextProcess, nextHistory, viewProcesses>>
    /\ UNCHANGED <<user, crmVars, authVars, uiVars>>

\* an updateProcess that restores the old document when its history write
\* fails
UpdateAddToHistoryRollback(k, fault) ==
    /\ ppc[k] = "update_history"
    /\ IF fault
       THEN /\ ProcessFails(k, VendorError, UpdateFallback(k))
            /\ processes' = [processes EXCEPT ![processId[k]] =
                   IF @.exists THEN [@ EXCEPT !.status = oldData[k].status] ELSE @]
            /\ UNCHANGED <<process_history, nextHistory>>
       ELSE /\ AddToHistory(processId[k], "updated",
                            SanitizeForHistory(oldData[k]),
                            SanitizeForHistory([oldData[k] EXCEPT !.status = updateData[k]]))
            /\ ProcessDone(k, UpdateDoneMessage(k))
            /\ UNCHANGED processes
    /\ UNCHANGED <<nextProcess, viewProcesses>>
    /\ UNCHANGED <<user, crmVars, authVars, uiVars>>

\* updateProcess: await this.addToHistory({action: 'updated', ...}), then the
\* handler's success toast
UpdateAddToHistory(k, fault) ==
    /\ ppc[k] = "update_history"
    /\ IF fault
       THEN /\ ProcessFails(k, VendorError, UpdateFallback(k))
            /\ UNCHANGED <<process_history, nextHistory>>
       ELSE /\ AddToHistory(processId[k], "updated",
                            SanitizeForHistory(oldData[k]),
                            SanitizeForHistory([oldData[k] EXCEPT !.status = updateData[k]]))
            /\ ProcessDone(k, UpdateDoneMessage(k))
    /\ UNCHANGED <<processes, nextProcess, viewProcesses>>
    /\ UNCHANGED <<user, crmVars, authVars, uiVars>>

\* Dashboard.handleDeleteProcess up to await confirm(...)
HandleDeleteProcess(k, p) ==
    /\ ppc[k] = "idle"
    /\ p \in viewProcesses[k]
    /\ HistoryRoom
    /\ ppc' = [ppc EXCEPT ![k] = "confirm"]
    /\ processId' = [processId EXCEPT ![k] = p]
    /\ toastDescription' = [toastDescription EXCEPT ![k] = "none"]
    /\ UNCHANGED <<procStore, viewProcesses, updateData, oldData, progressLocals>>
    /\ UNCHANGED <<user, crmVars, authVars, uiVars>>

\* useConfirmDialog: the dialog resolves; if (!confirmed) return
ConfirmSettles(k, confirmed) ==
    /\ ppc[k] = "confirm"
    /\ IF confirmed
       THEN /\ ppc' = [ppc EXCEPT ![k] = "delete_deleteDoc"]
            /\ UNCHANGED processId
       ELSE /\ ppc' = [ppc EXCEPT ![k] = "idle"]
            /\ processId' = [processId EXCEPT ![k] = 0]
    /\ UNCHANGED <<procStore, viewProcesses, updateData, oldData, progressLocals,
                   toastDescription>>
    /\ UNCHANGED <<user, crmVars, authVars, uiVars>>

\* a deleteProcess that deletes the contract's history with it
DeleteDeleteDocCascade(k, fault) ==
    /\ ppc[k] = "delete_deleteDoc"
    /\ IF fault
       THEN /\ ProcessFails(k, VendorError, MsgExcluirContrato)
            /\ UNCHANGED <<processes, process_history>>
       ELSE /\ processes' = [processes EXCEPT ![processId[k]] = NoProcess]
            /\ process_history' = {h \in process_history : h.process_id # processId[k]}
            /\ ppc' = [ppc EXCEPT ![k] = "delete_history"]
            /\ UNCHANGED <<procLocals, toastDescription>>
    /\ UNCHANGED <<nextProcess, nextHistory, viewProcesses>>
    /\ UNCHANGED <<user, crmVars, authVars, uiVars>>

\* deleteProcess: await deleteDoc(processRef) (no precondition)
DeleteDeleteDoc(k, fault) ==
    /\ ppc[k] = "delete_deleteDoc"
    /\ IF fault
       THEN /\ ProcessFails(k, VendorError, MsgExcluirContrato)
            /\ UNCHANGED processes
       ELSE /\ processes' = [processes EXCEPT ![processId[k]] = NoProcess]
            /\ ppc' = [ppc EXCEPT ![k] = "delete_history"]
            /\ UNCHANGED <<procLocals, toastDescription>>
    /\ UNCHANGED <<process_history, nextProcess, nextHistory, viewProcesses>>
    /\ UNCHANGED <<user, crmVars, authVars, uiVars>>

\* deleteProcess: await this.addToHistory({action: 'deleted', ...}), then the
\* handler's success toast
DeleteAddToHistory(k, fault) ==
    /\ ppc[k] = "delete_history"
    /\ IF fault
       THEN /\ ProcessFails(k, VendorError, MsgExcluirContrato)
            /\ UNCHANGED <<process_history, nextHistory>>
       ELSE /\ AddToHistory(processId[k], "deleted", NoValues, NoValues)
            /\ toastDescription' = [toastDescription EXCEPT ![k] = MsgContratoExcluido]
            /\ ppc' = [ppc EXCEPT ![k] = "delete_reload"]
            /\ UNCHANGED procLocals
    /\ UNCHANGED <<processes, nextProcess, viewProcesses>>
    /\ UNCHANGED <<user, crmVars, authVars, uiVars>>

\* handleDeleteProcess: await processService.getProcesses(...); setProcesses
DeleteGetProcesses(k, fault) ==
    /\ ppc[k] = "delete_reload"
    /\ IF fault
       THEN /\ ProcessFails(k, VendorError, MsgExcluirContrato)
            /\ UNCHANGED viewProcesses
       ELSE /\ viewProcesses' = [viewProcesses EXCEPT ![k] = ProcessesDoUsuario(user[k])]
            /\ ppc' = [ppc EXCEPT ![k] = "idle"]
            /\ processId' = [processId EXCEPT ![k] = 0]
            /\ UNCHANGED <<updateData, oldData, progressLocals, toastDescription>>
    /\ UNCHANGED procStore
    /\ UNCHANGED <<user, crmVars, authVars, uiVars>>

\* Dashboard.handleQuickUpdateSubmit up to await updateDoc(processRef, ...)
HandleQuickUpdateSubmit(k, p, montou_processo, numero_processo) ==
    /\ ppc[k] = "idle"
    /\ p \in viewProcesses[k]
    /\ HistoryRoom
    /\ ppc' = [ppc EXCEPT ![k] = "progress_updateDoc"]
    /\ processId' = [processId EXCEPT ![k] = p]
    /\ progressData' = [progressData EXCEPT ![k] =
           [montou_processo |-> montou_processo, numero_processo |-> numero_processo]]
    /\ toastDescription' = [toastDescription EXCEPT ![k] = "none"]
    /\ UNCHANGED <<procStore, viewProcesses, updateData, oldData, completionProcess>>
    /\ UNCHANGED <<user, crmVars, authVars, uiVars>>

\* a quick update that writes whatever number was typed, filed or not
WritesNumeroUnfiled(data) ==
    data.numero_processo # <<>> /\ Trim(data.numero_processo) # <<>>

\* if (updateData.montou_processo && updateData.numero_processo &&
\*     updateData.numero_processo.trim())
WritesNumero(data) ==
    data.montou_processo /\ data.numero_processo # <<>> /\ Trim(data.numero_processo) # <<>>

\* handleQuickUpdateSubmit: await updateDoc(processRef, updateProcessData)
ProgressUpdateDoc(k, fault) ==
    /\ ppc[k] = "progress_updateDoc"
    /\ IF UpdateError(k, fault) # "none"
       THEN /\ ProcessFails(k, UpdateError(k, fault), MsgRegistrarAndamento)
            /\ UNCHANGED processes
       ELSE /\ processes' = [processes EXCEPT ![processId[k]].numero_processo =
                   IF WritesNumero(progressData[k])
                   THEN Trim(progressData[k].numero_processo) ELSE @]
            /\ ppc' = [ppc EXCEPT ![k] = "progress_history"]
            /\ UNCHANGED <<procLocals, toastDescription>>
    /\ UNCHANGED <<process_history, nextProcess, nextHistory, viewProcesses>>
    /\ UNCHANGED <<user, crmVars, authVars, uiVars>>

\* new_values of the progress entry: the number is recorded when non-blank
ProgressValues(data) ==
    [status |-> "",
     numero_processo |-> IF data.numero_processo # <<>>
                         THEN Trim(data.numero_processo) ELSE NoNumero]

\* handleQuickUpdateSubmit: await processService.addToHistory(historyData);
\* the refresh that follows catches its own errors and replaces the loaded
\* contract in place; then the success toast
ProgressAddToHistory(k, fault) ==
    /\ ppc[k] = "progress_history"
    /\ IF fault
       THEN /\ ProcessFails(k, VendorError, MsgRegistrarAndamento)
            /\ UNCHANGED <<process_history, nextHistory>>
       ELSE /\ AddToHistory(processId[k], "progress_update", NoValues,
                            ProgressValues(progressData[k]))
            /\ ProcessDone(k, MsgAndamentoSalvo)
    /\ UNCHANGED <<processes, nextProcess, viewProcesses>>
    /\ UNCHANGED <<user, crmVars, authVars, uiVars>>

\* the contracts dashboard (Dashboard) over the shared store
NextProc ==
    \/ \E k \in Sessions : SubscriptionCallback(k)
    \/ \E k \in Sessions, status \in Statuses : HandleSaveProcessNew(k, status)
    \/ \E k \in Sessions, fault \in BOOLEAN : CreateAddDoc(k, fault)
    \/ \E k \in Sessions, fault \in BOOLEAN : CreateAddToHistory(k, fault)
    \/ \E k \in Sessions, p \in ProcessIds, status \in Statuses : HandleSaveProcessEdit(k, p, status)
    \/ \E k \in Sessions, fault \in BOOLEAN : UpdateGetProcessById(k, fault)
    \/ \E k \in Sessions, fault \in BOOLEAN : UpdateUpdateDoc(k, fault)
    \/ \E k \in Sessions, fault \in BOOLEAN : UpdateAddToHistory(k, fault)
    \/ \E k \in Sessions, p \in ProcessIds : HandleDeleteProcess(k, p)
    \/ \E k \in Sessions, confirmed \in BOOLEAN : ConfirmSettles(k, confirmed)
    \/ \E k \in Sessions, fault \in BOOLEAN : DeleteDeleteDoc(k, fault)
    \/ \E k \in Sessions, fault \in BOOLEAN : DeleteAddToHistory(k, fault)
    \/ \E k \in Sessions, fault \in BOOLEAN : DeleteGetProcesses(k, fault)
    \/ \E k \in Sessions, p \in ProcessIds : HandleConfirmCompletion(k, p)
    \/ \E k \in Sessions, p \in ProcessIds, montou_processo \in BOOLEAN, numero_processo \in Numeros :
          HandleQuickUpdateSubmit(k, p, montou_processo, numero_processo)
    \/ \E k \in Sessions, fault \in BOOLEAN : ProgressUpdateDoc(k, fault)
    \/ \E k \in Sessions, fault \in BOOLEAN : ProgressAddToHistory(k, fault)

SpecProc == Init /\ [][NextProc]_vars

\* ------------------------------------------------------------ editing spec
\* two sessions editing the same company and the same contract: the create
\* and edit handlers of both dashboards over the shared store
NextEdit ==
    \/ \E k \in Sessions : LoadCRMData(k)
    \/ \E k \in Sessions, nome \in Nomes : HandleSaveEmpresaNew(k, nome)
    \/ \E k \in Sessions, e \in EmpresaIds, nome \in Nomes : HandleSaveEmpresaEdit(k, e, nome)
    \/ \E k \in Sessions, fault \in BOOLEAN : UpdateEmpresaSettles(k, fault)
    \/ \E k \in Sessions : SubscriptionCallback(k)
    \* a new contract is saved with the form's default status
    \/ \E k \in Sessions : HandleSaveProcessNew(k, "em_andamento")
    \/ \E k \in Sessions, fault \in BOOLEAN : CreateAddDoc(k, fault)
    \/ \E k \in Sessions, fault \in BOOLEAN : CreateAddToHistory(k, fault)
    \/ \E k \in Sessions, p \in ProcessIds, status \in Statuses : HandleSaveProcessEdit(k, p, status)
    \/ \E k \in Sessions, fault \in BOOLEAN : UpdateGetProcessById(k, fault)
    \/ \E k \in Sessions, fault \in BOOLEAN : UpdateUpdateDoc(k, fault)
    \/ \E k \in Sessions, fault \in BOOLEAN : UpdateAddToHistory(k, fault)

SpecEdit == Init /\ [][NextEdit]_vars

\* ================================================= accounts, users, profile
\* toast titles and descriptions of UserProfileModal.handleSave
MsgSenhaAtualObrigatoria == "Senha atual obrigatoria"
MsgSenhasNaoCoincidem == "Senhas nao coincidem"
MsgSenhaMuitoCurta == "Senha muito curta"
MsgSenhaAlterada == "Senha alterada!"
MsgErroAlterarSenha == "Erro ao alterar senha"
MsgPerfilAtualizado == "Perfil atualizado!"
MsgErroSalvarPerfil == "Erro ao salvar perfil"
\* messages of AuthProvider.register and AuthProvider.login
MsgNomeCurto == "Nome deve ter pelo menos 2 caracteres"
MsgEmailInvalido == "Email invalido"
MsgSenhaMinima == "Senha deve ter pelo menos 6 caracteres"
MsgEmailEmUso == "Este email ja esta em uso"
MsgDadosNaoEncontrados == "Dados do usuario nao encontrados"

\* String.prototype.includes('@') on an e-mail as typed
IncludesAt(email) == \E i \in 1..Len(email) : email[i] = "@"

\* AuthProvider.register: the first validation that throws ("none": all pass)
RegisterValidation(c) ==
    IF c.name = <<>> \/ Len(Trim(c.name)) < 2 THEN MsgNomeCurto
    ELSE IF c.email = <<>> \/ ~IncludesAt(c.email) THEN MsgEmailInvalido
    ELSE IF c.password = <<>> \/ Len(c.password) < 6 THEN MsgSenhaMinima
    ELSE "none"

\* AuthProvider.register: credentialsWithAdminRole, the caller's role kept
CredentialsAsSupplied(c) == c

\* AuthProvider.register: credentialsWithAdminRole
CredentialsWithAdminRole(c) == [c EXCEPT !.role = "admin"]

\* authService.register: the destructuring default  role = 'user'
RoleOrDefault(role) == IF role = "undefined" THEN "user" ELSE role

\* AuthProvider.register up to the first await of authService.register
\* (LoginPage is rendered while the context has no current user)
Register(k, name, email, senha, role) ==
    /\ upc[k] = "idle"
    /\ currentUserId[k] = NoUid
    /\ LET c == [name |-> name, email |-> email, password |-> senha, role |-> role]
       IN IF RegisterValidation(c) # "none"
          THEN UNCHANGED <<upc, credentials>>
          ELSE /\ credentials' = [credentials EXCEPT ![k] = c]
               /\ upc' = [upc EXCEPT ![k] = "reg_createUser"]
    /\ UNCHANGED <<authStore, authUser, currentUserId, profileForm, pwUser,
                   reauthenticated, toasts>>
    /\ UNCHANGED <<user, crmVars, procVars, uiVars>>

\* a handler of AuthProvider throws (setError(msg), rethrow): locals dropped
AuthFails(k, msg) ==
    /\ credentials' = [credentials EXCEPT ![k] = NoCredentials]
    /\ upc' = [upc EXCEPT ![k] = "idle"]

\* authService.register: createUserWithEmailAndPassword, which signs the new
\* account in, then updateProfile
RegisterCreateUser(k, fault) ==
    /\ upc[k] = "reg_createUser"
    /\ LET e == credentials[k].email
       IN IF accounts[e].exists
          THEN /\ AuthFails(k, MsgEmailEmUso)
               /\ UNCHANGED <<accounts, authUser>>
          ELSE IF fault = "createUser"
          THEN /\ AuthFails(k, VendorError)
               /\ UNCHANGED <<accounts, authUser>>
          ELSE /\ accounts' = [accounts EXCEPT ![e] =
                                 [exists |-> TRUE, password |-> credentials[k].password]]
               /\ authUser' = [authUser EXCEPT ![k] = e]
               /\ IF fault = "updateProfile"
                  THEN AuthFails(k, VendorError)
                  ELSE /\ upc' = [upc EXCEPT ![k] = "reg_setDoc"]
                       /\ UNCHANGED credentials
    /\ UNCHANGED <<users, currentUserId, profileForm, pwUser, reauthenticated, toasts>>
    /\ UNCHANGED <<user, crmVars, procVars, uiVars>>

\* authService.register: setDoc of the user document under the account's uid
RegisterSetDoc(k, fault) ==
    /\ upc[k] = "reg_setDoc"
    /\ LET c == CredentialsWithAdminRole(credentials[k])
       IN IF fault
          THEN /\ AuthFails(k, VendorError)
               /\ UNCHANGED users
          ELSE /\ users' = [users EXCEPT ![c.email] =
                              [exists |-> TRUE, role |-> RoleOrDefault(c.role),
                               name |-> c.name]]
               /\ upc' = [upc EXCEPT ![k] = "login_signIn"]
               /\ UNCHANGED credentials
    /\ UNCHANGED <<accounts, authUser, currentUserId, profileForm, pwUser,
                   reauthenticated, toasts>>
    /\ UNCHANGED <<user, crmVars, procVars, uiVars>>

\* AuthProvider.login up to the await of authService.login
Login(k, email, senha) ==
    /\ upc[k] = "idle"
    /\ currentUserId[k] = NoUid
    /\ credentials' = [credentials EXCEPT ![k] =
                          [NoCredentials EXCEPT !.email = email, !.password = senha]]
    /\ upc' = [upc EXCEPT ![k] = "login_signIn"]
    /\ UNCHANGED <<authStore, authUser, currentUserId, profileForm, pwUser,
                   reauthenticated, toasts>>
    /\ UNCHANGED <<user, crmVars, procVars, uiVars>>

\* authService.login: signInWithEmailAndPassword
LoginSignIn(k, fault) ==
    /\ upc[k] = "login_signIn"
    /\ LET e == credentials[k].email
       IN IF fault
          THEN /\ AuthFails(k, VendorError)
               /\ UNCHANGED authUser
          ELSE IF ~accounts[e].exists
          THEN /\ AuthFails(k, "Usuario nao encontrado")
               /\ UNCHANGED authUser
          ELSE IF accounts[e].password # credentials[k].password
          THEN /\ AuthFails(k, MsgSenhaIncorreta)
               /\ UNCHANGED authUser
          ELSE /\ authUser' = [authUser EXCEPT ![k] = e]
               /\ upc' = [upc EXCEPT ![k] = "login_getUser"]
               /\ UNCHANGED credentials
    /\ UNCHANGED <<authStore, currentUserId, profileForm, pwUser, reauthenticated, toasts>>
    /\ UNCHANGED <<user, crmVars, procVars, uiVars>>

\* AuthProvider.login: userService.getUserByUid, then setCurrentUser
LoginGetUserByUid(k, fault) ==
    /\ upc[k] = "login_getUser"
    /\ LET uid == credentials[k].email
       IN IF fault
          THEN /\ AuthFails(k, VendorError)
               /\ UNCHANGED currentUserId
          ELSE IF ~users[uid].exists
          THEN /\ AuthFails(k, MsgDadosNaoEncontrados)
               /\ UNCHANGED currentUserId
          ELSE /\ currentUserId' = [currentUserId EXCEPT ![k] = uid]
               /\ credentials' = [credentials EXCEPT ![k] = NoCredentials]
               /\ upc' = [upc EXCEPT ![k] = "idle"]
    /\ UNCHANGED <<authStore, authUser, profileForm, pwUser, reauthenticated, toasts>>
    /\ UNCHANGED <<user, crmVars, procVars, uiVars>>

\* AuthProvider.logout: signOut, then the state is cleared. The auth state
\* belongs to the browser, so it may end while a handler is still awaiting.
Logout(k) ==
    /\ authUser[k] # NoUid
    /\ authUser' = [authUser EXCEPT ![k] = NoUid]
    /\ currentUserId' = [currentUserId EXCEPT ![k] = NoUid]
    /\ UNCHANGED <<authStore, upc, authLocals, toasts>>
    /\ UNCHANGED <<user, crmVars, procVars, uiVars>>

\* a toast of the profile modal
Toast(title, description) == [title |-> title, description |-> description]

\* UserProfileModal.handleSave: the password validation ("none": passes)
PasswordValidation(f) ==
    IF f.newPassword = <<>> /\ f.confirmPassword = <<>> /\ f.currentPassword = <<>>
    THEN "none"
    ELSE IF f.currentPassword = <<>> THEN MsgSenhaAtualObrigatoria
    ELSE IF f.newPassword # f.confirmPassword THEN MsgSenhasNaoCoincidem
    ELSE IF Len(f.newPassword) < 6 THEN MsgSenhaMuitoCurta
    ELSE "none"

\* handleSave: if (newPassword && currentPassword)
PasswordRequested(f) == f.newPassword # <<>> /\ f.currentPassword # <<>>

\* handleSave's catch of passwordError: the description chosen from its code
PasswordErrorMessage(code) ==
    IF code = "auth/wrong-password" THEN "Senha atual incorreta."
    ELSE IF code = "auth/weak-password" THEN "A nova senha e muito fraca."
    ELSE IF code = "auth/requires-recent-login"
    THEN "Por seguranca, voce precisa fazer login novamente antes de alterar a senha."
    ELSE "Erro ao alterar senha."

\* handleSave when changePassword rejects, returning after the error toast
PasswordFailedReturns(code) ==
    <<Toast(MsgErroAlterarSenha, PasswordErrorMessage(code))>>

\* handleSave when changePassword rejects: the error toast, then the code
\* after the inner try/catch (success toast, onClose)
PasswordFailed(code) ==
    <<Toast(MsgErroAlterarSenha, PasswordErrorMessage(code)),
      Toast(MsgPerfilAtualizado, "")>>

\* handleSave when changePassword resolves
PasswordChanged ==
    <<Toast(MsgSenhaAlterada, ""), Toast(MsgPerfilAtualizado, "")>>

\* handleSave returns: its locals are dropped
SaveDone(k, ts) ==
    /\ toasts' = [toasts EXCEPT ![k] = ts]
    /\ upc' = [upc EXCEPT ![k] = "idle"]
    /\ pwUser' = [pwUser EXCEPT ![k] = NoUid]
    /\ profileForm' = [profileForm EXCEPT ![k] = NoProfile]
    /\ reauthenticated' = [reauthenticated EXCEPT ![k] = "none"]

\* UserProfileModal.handleSave up to the await in updateUserProfile (the
\* Header, and with it the modal, is rendered for the current user)
HandleSave(k, name, currentPassword, newPassword, confirmPassword) ==
    /\ upc[k] = "idle"
    /\ currentUserId[k] # NoUid
    /\ LET f == [uid |-> currentUserId[k], name |-> name,
                 currentPassword |-> currentPassword,
                 newPassword |-> newPassword,
                 confirmPassword |-> confirmPassword]
       IN IF PasswordValidation(f) # "none"
          THEN /\ toasts' = [toasts EXCEPT ![k] = <<Toast(PasswordValidation(f), "")>>]
               /\ profileForm' = [profileForm EXCEPT ![k] = NoProfile]
               /\ UNCHANGED upc
          ELSE /\ toasts' = [toasts EXCEPT ![k] = <<>>]
               /\ profileForm' = [profileForm EXCEPT ![k] = f]
               /\ upc' = [upc EXCEPT ![k] = "save_updateUser"]
    /\ UNCHANGED <<authStore, authUser, currentUserId, credentials, pwUser,
                   reauthenticated>>
    /\ UNCHANGED <<user, crmVars, procVars, uiVars>>

\* updateUserProfile settles (userService.updateUser, then updateProfile) and
\* handleSave goes on to authService.changePassword, up to its first await
UpdateUserProfile(k, fault) ==
    /\ upc[k] = "save_updateUser"
    /\ LET f == profileForm[k]
           saved == [users EXCEPT ![f.uid].name = Trim(f.name)]
       IN IF fault = "updateUser"
          THEN /\ SaveDone(k, <<Toast(MsgErroSalvarPerfil, VendorError)>>)
               /\ UNCHANGED users
          ELSE IF ~users[f.uid].exists
          THEN /\ SaveDone(k, <<Toast(MsgErroSalvarPerfil, VendorNotFound)>>)
               /\ UNCHANGED users
          ELSE IF fault = "updateProfile"
          THEN /\ users' = saved
               /\ SaveDone(k, <<Toast(MsgErroSalvarPerfil, VendorError)>>)
          ELSE /\ users' = saved
               /\ IF ~PasswordRequested(f)
                  THEN SaveDone(k, <<Toast(MsgPerfilAtualizado, "")>>)
                  ELSE IF authUser[k] = NoUid
                  THEN SaveDone(k, PasswordFailed("none"))
                  ELSE /\ pwUser' = [pwUser EXCEPT ![k] = authUser[k]]
                       /\ upc' = [upc EXCEPT ![k] = "pw_reauthenticate"]
                       /\ UNCHANGED <<toasts, profileForm, reauthenticated>>
    /\ UNCHANGED <<accounts, authUser, currentUserId, credentials>>
    /\ UNCHANGED <<user, crmVars, procVars, uiVars>>

\* reauthenticateWithCredential(user, credential) resolves
ReauthSucceeds(k, fault) ==
    /\ ~fault
    /\ accounts[pwUser[k]].password = profileForm[k].currentPassword

\* changePassword going on to updatePassword whatever the re-authentication
\* answered
ChangePasswordReauthUnchecked(k, fault) ==
    /\ upc[k] = "pw_reauthenticate"
    /\ reauthenticated' = [reauthenticated EXCEPT ![k] =
                              IF ReauthSucceeds(k, fault) THEN "ok" ELSE "failed"]
    /\ upc' = [upc EXCEPT ![k] = "pw_updatePassword"]
    /\ UNCHANGED <<toasts, pwUser, profileForm>>
    /\ UNCHANGED <<authStore, authUser, currentUserId, credentials>>
    /\ UNCHANGED <<user, crmVars, procVars, uiVars>>

\* authService.changePassword: await reauthenticateWithCredential
ChangePasswordReauth(k, fault) ==
    /\ upc[k] = "pw_reauthenticate"
    /\ IF ReauthSucceeds(k, fault)
       THEN /\ reauthenticated' = [reauthenticated EXCEPT ![k] = "ok"]
            /\ upc' = [upc EXCEPT ![k] = "pw_updatePassword"]
            /\ UNCHANGED <<toasts, pwUser, profileForm>>
       ELSE SaveDone(k, PasswordFailed(IF fault THEN "auth/network-request-failed"
                                       ELSE "auth/wrong-password"))
    /\ UNCHANGED <<authStore, authUser, currentUserId, credentials>>
    /\ UNCHANGED <<user, crmVars, procVars, uiVars>>

\* authService.changePassword: await updatePassword
ChangePasswordUpdate(k, fault) ==
    /\ upc[k] = "pw_updatePassword"
    /\ IF fault
       THEN /\ SaveDone(k, PasswordFailed("auth/requires-recent-login"))
            /\ UNCHANGED accounts
       ELSE /\ accounts' = [accounts EXCEPT ![pwUser[k]].password =
                               profileForm[k].newPassword]
            /\ SaveDone(k, PasswordChanged)
    /\ UNCHANGED <<users, authUser, currentUserId, credentials>>
    /\ UNCHANGED <<user, crmVars, procVars, uiVars>>

\* the registration, login and profile handlers over the accounts and the
\* 'users' collection
NextUser ==
    \/ \E k \in Sessions, name \in {NomeCurto, NomeAn}, email \in EmailInputs,
          senha \in {SenhaCurta, Senha1}, role \in RoleInputs :
          Register(k, name, email, senha, role)
    \/ \E k \in Sessions, fault \in {"none", "createUser", "updateProfile"} :
          RegisterCreateUser(k, fault)
    \/ \E k \in Sessions, fault \in BOOLEAN : RegisterSetDoc(k, fault)
    \/ \E k \in Sessions, email \in Emails, senha \in {Senha1, Senha2} : Login(k, email, senha)
    \/ \E k \in Sessions, fault \in BOOLEAN : LoginSignIn(k, fault)
    \/ \E k \in Sessions, fault \in BOOLEAN : LoginGetUserByUid(k, fault)
    \/ \E k \in Sessions : Logout(k)
    \/ \E k \in Sessions, name \in {NomeAn, NomeBo},
          currentPassword \in {<<>>, Senha1, Senha2},
          newPassword \in {<<>>, SenhaCurta, Senha1, Senha2},
          confirmPassword \in {<<>>, Senha1, Senha2} :
          HandleSave(k, name, currentPassword, newPassword, confirmPassword)
    \/ \E k \in Sessions, fault \in {"none", "updateUser", "updateProfile"} :
          UpdateUserProfile(k, fault)
    \/ \E k \in Sessions, fault \in BOOLEAN : ChangePasswordReauth(k, fault)
    \/ \E k \in Sessions, fault \in BOOLEAN : ChangePasswordUpdate(k, fault)

SpecUser == Init /\ [][NextUser]_vars

\* ======================================================= history rendering
\* formatValue: ISO date strings are formatted, null / undefined / '' give
\* 'vazio', everything else is stringified
FormatValue(value) ==
    IF value = IsoDate THEN "01/05/2024 10:00"
    ELSE IF value = Undefined \/ value = "" THEN "vazio"
    ELSE value

\* oldValues[key]
ValueOf(snapshot, key) ==
    IF key \in DOMAIN snapshot.fields THEN snapshot.fields[key] ELSE Undefined

\* ProcessHistory.formatChanges
FormatChanges(old, new) ==
    IF ~old.present \/ ~new.present
    THEN NoChanges
    ELSE [isNull |-> FALSE,
          list |-> {[field |-> key,
                     from |-> FormatValue(ValueOf(old, key)),
                     to |-> FormatValue(new.fields[key])] :
                    key \in {k \in DOMAIN new.fields : ValueOf(old, k) # new.fields[k]}}]

\* the history dialog renders an entry that is not a progress_update: new_values
\* is always there, old_values is optional. A rendering does not depend on
\* the previous ones: each is taken from the state before any.
RenderEntry(old, new) ==
    /\ ~newValues.present
    /\ oldValues' = old
    /\ newValues' = new
    /\ changes' = FormatChanges(old, new)
    /\ UNCHANGED <<user, crmVars, procVars, authVars>>
    /\ UNCHANGED <<quickVars, exportVars, cardVars, historyQueryVars, cepVars, observerVars, crmListVars, confirmVars>>

NextHistoryDialog ==
    /\ ~newValues.present
    /\ \E old \in Snapshots \cup {NoSnapshot}, new \in Snapshots : RenderEntry(old, new)

SpecHistoryDialog == Init /\ [][NextHistoryDialog]_vars

\* =================================================== progress-update dialog
\* QuickStatusUpdate.initializeForm: today's date, the contract's place
InitializeForm(local) ==
    /\ quickUpdateData' = [EmptyQuickUpdate EXCEPT !.data = Today, !.local = local]
    /\ UNCHANGED quickHistory
    /\ UNCHANGED <<user, crmVars, procVars, authVars>>
    /\ UNCHANGED <<historyDialogVars, exportVars, cardVars, historyQueryVars, cepVars, observerVars, crmListVars, confirmVars>>

\* onChange of the date input
SetData(data) ==
    /\ quickUpdateData' = [quickUpdateData EXCEPT !.data = data]
    /\ UNCHANGED quickHistory
    /\ UNCHANGED <<user, crmVars, procVars, authVars>>
    /\ UNCHANGED <<historyDialogVars, exportVars, cardVars, historyQueryVars, cepVars, observerVars, crmListVars, confirmVars>>

\* onChange of the place input
SetLocal(local) ==
    /\ quickUpdateData' = [quickUpdateData EXCEPT !.local = local]
    /\ UNCHANGED quickHistory
    /\ UNCHANGED <<user, crmVars, procVars, authVars>>
    /\ UNCHANGED <<historyDialogVars, exportVars, cardVars, historyQueryVars, cepVars, observerVars, crmListVars, confirmVars>>

\* onCheckedChange of the switch: switching off clears the number
SetMontouProcesso(checked) ==
    /\ quickUpdateData' = [quickUpdateData EXCEPT
                             !.montou_processo = checked,
                             !.numero_processo = IF checked THEN @ ELSE <<>>]
    /\ UNCHANGED quickHistory
    /\ UNCHANGED <<user, crmVars, procVars, authVars>>
    /\ UNCHANGED <<historyDialogVars, exportVars, cardVars, historyQueryVars, cepVars, observerVars, crmListVars, confirmVars>>

\* onChange of the number input, rendered while the switch is on
SetNumeroProcesso(numero) ==
    /\ quickUpdateData.montou_processo
    /\ quickUpdateData' = [quickUpdateData EXCEPT !.numero_processo = numero]
    /\ UNCHANGED quickHistory
    /\ UNCHANGED <<user, crmVars, procVars, authVars>>
    /\ UNCHANGED <<historyDialogVars, exportVars, cardVars, historyQueryVars, cepVars, observerVars, crmListVars, confirmVars>>

\* isFormValid without the check of the number
IsFormValidWithoutNumber(f) ==
    f.data # "" /\ Trim(f.local) # <<>>

\* QuickStatusUpdate.isFormValid
IsFormValid(f) ==
    /\ f.data # "" /\ Trim(f.local) # <<>>
    /\ IF f.montou_processo
       THEN f.numero_processo # <<>> /\ Trim(f.numero_processo) # <<>>
       ELSE TRUE

\* handleSaveUpdate: the ProcessUpdateData handed to onUpdateProcess
\* (numero_processo <<>>: undefined)
SaveUpdateData(f) ==
    [data |-> f.data,
     local |-> Trim(f.local),
     montou_processo |-> f.montou_processo,
     numero_processo |-> IF f.montou_processo /\ f.numero_processo # <<>>
                         THEN Trim(f.numero_processo) ELSE <<>>]

\* handleQuickUpdateSubmit: historyData.new_values, numero_processo spread in
\* only when non-blank
HistoryNewValues(u) ==
    IF u.numero_processo # <<>> /\ Trim(u.numero_processo) # <<>>
    THEN [data |-> u.data, local |-> u.local, montou_processo |-> u.montou_processo,
          numero_processo |-> Trim(u.numero_processo)]
    ELSE [data |-> u.data, local |-> u.local, montou_processo |-> u.montou_processo]

\* QuickStatusUpdate.handleSaveUpdate: nothing when the form is invalid;
\* otherwise onUpdateProcess (Dashboard.handleQuickUpdateSubmit, whose history
\* entry is written unless one of its two store calls rejects), then the form
\* is initialized again and the dialog closed
HandleSaveUpdate(local, fault) ==
    /\ IF ~IsFormValid(quickUpdateData)
       THEN UNCHANGED quickVars
       ELSE /\ quickHistory' = IF fault THEN quickHistory
                               ELSE quickHistory \cup
                                    {HistoryNewValues(SaveUpdateData(quickUpdateData))}
            /\ quickUpdateData' = [EmptyQuickUpdate EXCEPT !.data = Today, !.local = local]
    /\ UNCHANGED <<user, crmVars, procVars, authVars>>
    /\ UNCHANGED <<historyDialogVars, exportVars, cardVars, historyQueryVars, cepVars, observerVars, crmListVars, confirmVars>>

NextQuickUpdate ==
    \/ \E local \in {<<"X">>, <<"Y">>} : InitializeForm(local)
    \/ \E data \in DateInputs : SetData(data)
    \/ \E local \in LocalInputs : SetLocal(local)
    \/ \E checked \in BOOLEAN : SetMontouProcesso(checked)
    \/ \E numero \in NumeroInputs : SetNumeroProcesso(numero)
    \/ \E local \in {<<"X">>, <<"Y">>}, fault \in BOOLEAN : HandleSaveUpdate(local, fault)

SpecQuickUpdate == Init /\ [][NextQuickUpdate]_vars

\* ================================================================== export
\* createDateFromString: new Date(year, month - 1, day)
CreateDateFromString(dateString) ==
    [year |-> dateString.year, month |-> dateString.month - 1, day |-> dateString.day]

\* Date.getTime(), in days
GetTime(date) == (date.year * 12 + date.month) * 31 + date.day

\* toLocaleDateString('pt-BR'): DD/MM/YYYY
ToLocaleDateString(date) == <<date.day, date.month + 1, date.year>>

\* statusMap of the export
StatusMap(status) ==
    CASE status = "pendente" -> <<"Pendente">>
      [] status = "em_andamento" -> <<"Em Andamento">>
      [] status = "concluido" -> <<"Concluido">>
      [] OTHER -> <<"Cancelado">>

\* the status column of a history row
RowStatus(entry) ==
    IF entry.montou_processo /\ entry.numero_processo # ""
    THEN IF entry.notes # <<>> THEN entry.notes
         ELSE <<"Montou processo: ", entry.numero_processo>>
    ELSE IF entry.notes # <<>> THEN entry.notes ELSE <<"Andamento registrado">>

\* history.filter(progress_update).forEach: the rows pushed for the entries
\* from index i on
RECURSIVE HistoryRows(_, _)
HistoryRows(history, i) ==
    IF i > Len(history) THEN <<>>
    ELSE IF history[i].action = "progress_update"
            /\ history[i].data # NoExportProcess.data /\ history[i].local # ""
    THEN <<[data |-> CreateDateFromString(history[i].data),
            local |-> history[i].local,
            status |-> RowStatus(history[i]),
            entry |-> i]>> \o HistoryRows(history, i + 1)
    ELSE HistoryRows(history, i + 1)

\* r put into sorted rows after every row that is not later than it
RECURSIVE InsertRow(_, _)
InsertRow(sorted, r) ==
    IF sorted = <<>> THEN <<r>>
    ELSE IF GetTime(Head(sorted).data) <= GetTime(r.data)
    THEN <<Head(sorted)>> \o InsertRow(Tail(sorted), r)
    ELSE <<r>> \o sorted

\* the rows left in the order they were pushed
RowsAsPushed(rs) == rs

\* rows.sort((a, b) => a.data.getTime() - b.data.getTime()), a stable sort
RECURSIVE SortRows(_)
SortRows(rs) ==
    IF rs = <<>> THEN <<>>
    ELSE InsertRow(SortRows(SubSeq(rs, 1, Len(rs) - 1)), rs[Len(rs)])

\* ExcelExportService.createWorksheetForProcess: the contract's row, the rows
\* of the progress updates, the sort, the formatting. A call does not depend
\* on the previous ones: each is taken from the state before any.
CreateWorksheetForProcess(process, history) ==
    LET pushed == <<[data |-> CreateDateFromString(process.data),
                     local |-> process.local,
                     status |-> StatusMap(process.status),
                     entry |-> 0]>> \o HistoryRows(history, 1)
        sorted == SortRows(pushed)
    IN /\ exportProcess = NoExportProcess
       /\ exportProcess' = process
       /\ exportHistory' = history
       /\ rows' = sorted
       /\ formattedRows' = [i \in 1..Len(sorted) |->
                               <<ToLocaleDateString(sorted[i].data), sorted[i].local,
                                 sorted[i].status>>]
       /\ UNCHANGED <<user, crmVars, procVars, authVars>>
       /\ UNCHANGED <<historyDialogVars, quickVars, cardVars, historyQueryVars, cepVars, observerVars, crmListVars, confirmVars>>

NextExport ==
    /\ exportProcess = NoExportProcess
    /\ \E process \in [data : DateStrings, local : {"Y"}, status : {"pendente", "concluido"}],
          n \in 0..MaxExportEntries :
          \E history \in [1..n -> ExportEntries] :
             CreateWorksheetForProcess(process, history)

SpecExport == Init /\ [][NextExport]_vars

\* ------------------------------------------------- completion and progress
\* the dashboard's cards: the buttons a card offers depend on the status the
\* card was rendered with, which is the status of the last snapshot

\* the statuses of the user's contracts as the store holds them now
CardsDoUsuario(u) ==
    [p \in ProcessIds |->
        IF p \in ProcessesDoUsuario(u) THEN processes[p].status ELSE ""]

\* the onSnapshot listener calls back: setProcesses(localProcesses) replaces
\* the cards, ids and statuses together
ProcessesSnapshot(k) ==
    /\ \/ viewProcesses[k] # ProcessesDoUsuario(user[k])
       \/ cards[k] # CardsDoUsuario(user[k])
    /\ viewProcesses' = [viewProcesses EXCEPT ![k] = ProcessesDoUsuario(user[k])]
    /\ cards' = [cards EXCEPT ![k] = CardsDoUsuario(user[k])]
    /\ UNCHANGED <<procStore, ppc, procLocals, toastDescription>>
    /\ UNCHANGED <<user, crmVars, authVars>>
    /\ UNCHANGED <<historyDialogVars, quickVars, exportVars, historyQueryVars, cepVars, observerVars, crmListVars, confirmVars>>

\* ProcessCard: {process.status === 'em_andamento' && (...)} around the
\* "Lançar Andamento" and "Concluir Processo" buttons
CardOffersActions(k, p) == cards[k][p] = "em_andamento"

\* the card's "Concluir Processo" button, then the completion modal's confirm
CardCompleteProcess(k, p) ==
    /\ CardOffersActions(k, p)
    /\ HandleConfirmCompletion(k, p)

\* the card's "Lançar Andamento" button, then the dialog's save
CardQuickStatusUpdate(k, p, montou_processo, numero_processo) ==
    /\ CardOffersActions(k, p)
    /\ HandleQuickUpdateSubmit(k, p, montou_processo, numero_processo)

NextCards ==
    \/ \E k \in Sessions : ProcessesSnapshot(k)
    \/ \E k \in Sessions, status \in Statuses : HandleSaveProcessNew(k, status)
    \/ \E k \in Sessions, fault \in BOOLEAN : CreateAddDoc(k, fault)
    \/ \E k \in Sessions, fault \in BOOLEAN : CreateAddToHistory(k, fault)
    \/ \E k \in Sessions, p \in ProcessIds : CardCompleteProcess(k, p)
    \/ \E k \in Sessions, fault \in BOOLEAN : UpdateGetProcessById(k, fault)
    \/ \E k \in Sessions, fault \in BOOLEAN : UpdateUpdateDoc(k, fault)
    \/ \E k \in Sessions, fault \in BOOLEAN : UpdateAddToHistory(k, fault)
    \/ \E k \in Sessions, p \in ProcessIds, montou_processo \in BOOLEAN, numero_processo \in Numeros :
          CardQuickStatusUpdate(k, p, montou_processo, numero_processo)
    \/ \E k \in Sessions, fault \in BOOLEAN : ProgressUpdateDoc(k, fault)
    \/ \E k \in Sessions, fault \in BOOLEAN : ProgressAddToHistory(k, fault)

SpecCards == Init /\ [][NextCards]_vars

\* ------------------------------------------------------ the history query
\* snapshot.docs.map(doc => ({id: doc.id, ...doc.data()})) of
\* where('process_id', '==', p)
RECURSIVE QueryHistory(_, _, _)
QueryHistory(docs, p, i) ==
    IF i > Len(docs) THEN <<>>
    ELSE (IF docs[i].process_id = p
          THEN <<[id |-> i, process_id |-> docs[i].process_id, updated_at |-> docs[i].updated_at]>>
          ELSE <<>>) \o QueryHistory(docs, p, i + 1)

\* a value without toDate() taken for the latest date
ToDateOrLatest(e) ==
    IF e.updated_at.usable THEN e.updated_at.seconds ELSE 3

\* (a.updated_at?.toDate?.() || new Date(0)).getTime(), in seconds
ToDateOrEpoch(e) ==
    IF e.updated_at.usable THEN e.updated_at.seconds ELSE 0

\* e put into a sorted history after every entry that is not older than it
RECURSIVE InsertEntry(_, _)
InsertEntry(sorted, e) ==
    IF sorted = <<>> THEN <<e>>
    ELSE IF ToDateOrEpoch(Head(sorted)) >= ToDateOrEpoch(e)
    THEN <<Head(sorted)>> \o InsertEntry(Tail(sorted), e)
    ELSE <<e>> \o sorted

\* history.sort((a, b) => dateB.getTime() - dateA.getTime()), a stable sort
RECURSIVE SortHistory(_)
SortHistory(history) ==
    IF history = <<>> THEN <<>>
    ELSE InsertEntry(SortHistory(SubSeq(history, 1, Len(history) - 1)), history[Len(history)])

\* processService.getProcessHistory(p). A call does not depend on the
\* previous ones: each is taken from the state before any.
GetProcessHistory(docs, p) ==
    /\ historyArg = 0
    /\ historyDocs' = docs
    /\ historyArg' = p
    /\ historyResult' = SortHistory(QueryHistory(docs, p, 1))
    /\ UNCHANGED <<user, crmVars, procVars, authVars>>
    /\ UNCHANGED <<historyDialogVars, quickVars, exportVars, cardVars, cepVars, observerVars, crmListVars, confirmVars>>

NextHistoryQuery ==
    /\ historyArg = 0
    /\ \E docs \in HistoryCollections, p \in HistoryProcessIds : GetProcessHistory(docs, p)

SpecHistoryQuery == Init /\ [][NextHistoryQuery]_vars

\* -------------------------------------------- the postal code of the form
\* value.replace(/[^\d]/g, '')
CleanCEP(value) == SelectSeq(value, LAMBDA c : c \in CepDigits)

\* EmpresaForm.formatCEP: the hyphen is put into a code of exactly 8 digits
FormatCEP(value) ==
    LET cleanValue == CleanCEP(value)
    IN IF Len(cleanValue) = 8
       THEN SubSeq(cleanValue, 1, 5) \o <<"-">> \o SubSeq(cleanValue, 6, 8)
       ELSE cleanValue

\* what viacep.com.br answers for a code it knows
ViaCEP(cleanCEP) ==
    [logradouro |-> <<"rua">> \o cleanCEP, bairro |-> <<"bairro">> \o cleanCEP,
     localidade |-> <<"cidade">> \o cleanCEP, uf |-> <<"uf">> \o cleanCEP]

\* the calls of buscarEnderecoPorCEP that get past its length check
Lookups ==
    [id : 1..MaxLookups,
     cleanCEP : {CleanCEP(value) : value \in {v \in CepInputs : Len(CleanCEP(v)) = 8}}]

\* the input's onChange: handleInputChange('endereco.cep', formatCEP(value)),
\* which starts buscarEnderecoPorCEP up to its await fetch(...) when the code
\* has 8 digits
HandleInputChange(value) ==
    /\ nextLookup <= MaxLookups
    /\ cepEntered' = FormatCEP(value)
    /\ endereco' = [endereco EXCEPT !.cep = FormatCEP(value)]
    /\ IF Len(CleanCEP(FormatCEP(value))) = 8
       THEN /\ lookups' = lookups \cup
                   {[id |-> nextLookup, cleanCEP |-> CleanCEP(FormatCEP(value))]}
            /\ nextLookup' = nextLookup + 1
            /\ buscandoCEP' = TRUE
       ELSE UNCHANGED <<lookups, nextLookup, buscandoCEP>>
    /\ UNCHANGED cepToast
    /\ UNCHANGED <<user, crmVars, procVars, authVars>>
    /\ UNCHANGED <<historyDialogVars, quickVars, exportVars, cardVars, historyQueryVars, observerVars, crmListVars, confirmVars>>

\* buscarEnderecoPorCEP after await fetch(...) and await response.json():
\* the answer has erro, or an address, or the request failed
FetchSettles(r, outcome) ==
    /\ r \in lookups
    /\ lookups' = lookups \ {r}
    /\ buscandoCEP' = FALSE
    /\ CASE outcome = "erro" ->
              /\ cepToast' = "CEP não encontrado"
              /\ UNCHANGED endereco
         [] outcome = "found" ->
              /\ endereco' = [logradouro |-> ViaCEP(r.cleanCEP).logradouro,
                              bairro |-> ViaCEP(r.cleanCEP).bairro,
                              cidade |-> ViaCEP(r.cleanCEP).localidade,
                              estado |-> ViaCEP(r.cleanCEP).uf,
                              cep |-> FormatCEP(r.cleanCEP)]
              /\ cepToast' = "Endereço encontrado!"
         [] outcome = "failed" ->
              /\ cepToast' = "Erro ao buscar CEP"
              /\ UNCHANGED endereco
    /\ UNCHANGED <<cepEntered, nextLookup>>
    /\ UNCHANGED <<user, crmVars, procVars, authVars>>
    /\ UNCHANGED <<historyDialogVars, quickVars, exportVars, cardVars, historyQueryVars, observerVars, crmListVars, confirmVars>>

NextCep ==
    \/ \E value \in CepInputs : HandleInputChange(value)
    \/ \E r \in Lookups, outcome \in {"erro", "found", "failed"} : FetchSettles(r, outcome)

SpecCep == Init /\ [][NextCep]_vars

\* ------------------------------------------------- the auth-state observer
\* the user document of the account is deactivated in the store (is_active:
\* false); the application itself only ever writes is_active: true, and its
\* observer tests the field
DeactivateUser(uid) ==
    /\ users[uid].exists
    /\ is_active[uid]
    /\ is_active' = [is_active EXCEPT ![uid] = FALSE]
    /\ UNCHANGED <<observerUser, opc>>
    /\ UNCHANGED <<user, crmVars, procVars, authVars>>
    /\ UNCHANGED <<historyDialogVars, quickVars, exportVars, cardVars, historyQueryVars, cepVars, crmListVars, confirmVars>>

\* onAuthStateChanged calls back with the browser's auth user: without one
\* the context is cleared, with one the callback awaits getUserByUid
AuthStateChanged(k) ==
    /\ opc[k] = "idle"
    /\ observerUser[k] # authUser[k]
    /\ observerUser' = [observerUser EXCEPT ![k] = authUser[k]]
    /\ IF authUser[k] = NoUid
       THEN /\ currentUserId' = [currentUserId EXCEPT ![k] = NoUid]
            /\ UNCHANGED opc
       ELSE /\ opc' = [opc EXCEPT ![k] = "getUser"]
            /\ UNCHANGED currentUserId
    /\ UNCHANGED is_active
    /\ UNCHANGED <<authStore, authUser, upc, authLocals, toasts>>
    /\ UNCHANGED <<user, crmVars, procVars>>
    /\ UNCHANGED <<historyDialogVars, quickVars, exportVars, cardVars, historyQueryVars, cepVars, crmListVars, confirmVars>>

\* the observer callback after await userService.getUserByUid:
\* if (userData && userData.is_active) setCurrentUser(localUser), else (and
\* in the catch) setCurrentUser(null)
ObserverGetUserByUid(k, fault) ==
    /\ opc[k] = "getUser"
    /\ opc' = [opc EXCEPT ![k] = "idle"]
    /\ LET uid == observerUser[k]
       IN currentUserId' = [currentUserId EXCEPT ![k] =
              IF ~fault /\ users[uid].exists /\ is_active[uid] THEN uid ELSE NoUid]
    /\ UNCHANGED <<is_active, observerUser>>
    /\ UNCHANGED <<authStore, authUser, upc, authLocals, toasts>>
    /\ UNCHANGED <<user, crmVars, procVars>>
    /\ UNCHANGED <<historyDialogVars, quickVars, exportVars, cardVars, historyQueryVars, cepVars, crmListVars, confirmVars>>

\* registration and login in the browsers, the observer of each, and the
\* store's administrator
NextAuthState ==
    \/ \E k \in Sessions, email \in Emails : Register(k, NomeAn, email, Senha1, "user")
    \/ \E k \in Sessions, fault \in {"none", "createUser", "updateProfile"} :
          RegisterCreateUser(k, fault)
    \/ \E k \in Sessions, fault \in BOOLEAN : RegisterSetDoc(k, fault)
    \/ \E k \in Sessions, email \in Emails, senha \in {Senha1, Senha2} : Login(k, email, senha)
    \/ \E k \in Sessions, fault \in BOOLEAN : LoginSignIn(k, fault)
    \/ \E k \in Sessions, fault \in BOOLEAN : LoginGetUserByUid(k, fault)
    \/ \E k \in Sessions : Logout(k)
    \/ \E uid \in Emails : DeactivateUser(uid)
    \/ \E k \in Sessions : AuthStateChanged(k)
    \/ \E k \in Sessions, fault \in BOOLEAN : ObserverGetUserByUid(k, fault)

SpecAuthState == Init /\ [][NextAuthState]_vars

\* ------------------------------------------------- the CRM dashboard's lists
\* contatoService.searchContatos(filters, userId): the constraints come from
\* the filters alone (empresa_id 0: no such filter)
SearchContatos(empresa_id, userId) ==
    {c \in contatos : empresa_id = 0 \/ c.empresa_id = empresa_id}

\* logInformacaoService.searchLogs(filters, userId): the constraints come
\* from the filters alone
SearchLogs(empresa_id, userId) ==
    {l \in logs_informacao : empresa_id = 0 \/ l.empresa_id = empresa_id}

\* crmStatsService.getCRMStats(userId): three queries where created_by == userId
GetCRMStats(userId) ==
    [total_empresas |-> Cardinality(EmpresasDoUsuario(userId)),
     total_contatos |-> Cardinality({c \in contatos : c.created_by = userId}),
     total_logs |-> Cardinality({l \in logs_informacao : l.created_by = userId})]

\* the CRM dashboard is mounted for a signed-in user: empty lists
MountCRMDashboard(k, u) ==
    /\ pc[k] = "idle"
    /\ user[k] # u
    /\ user' = [user EXCEPT ![k] = u]
    /\ viewEmpresas' = [viewEmpresas EXCEPT ![k] = {}]
    /\ viewContatos' = [viewContatos EXCEPT ![k] = {}]
    /\ viewLogs' = [viewLogs EXCEPT ![k] = {}]
    /\ stats' = [stats EXCEPT ![k] = NoStats]
    /\ UNCHANGED <<storeVars, pc, selectedEmpresa, empresaForm, modalVars,
                   deleteLocals, caught, rejected>>
    /\ UNCHANGED <<procVars, authVars>>
    /\ UNCHANGED <<historyDialogVars, quickVars, exportVars, cardVars, historyQueryVars, cepVars, observerVars, confirmVars>>

\* CRMDashboard.loadCRMData: getEmpresas where created_by == user.id,
\* searchContatos({}, user.id), searchLogs({}, user.id), getCRMStats(user.id);
\* the await numbered failAt rejects (0: none) and the lists set before it
\* stay
LoadCRMLists(k, failAt) ==
    /\ pc[k] = "idle"
    /\ viewEmpresas' = [viewEmpresas EXCEPT ![k] =
           IF failAt = 1 THEN @ ELSE EmpresasDoUsuario(user[k])]
    /\ viewContatos' = [viewContatos EXCEPT ![k] =
           IF failAt \in 1..2 THEN @ ELSE SearchContatos(0, user[k])]
    /\ viewLogs' = [viewLogs EXCEPT ![k] =
           IF failAt \in 1..3 THEN @ ELSE SearchLogs(0, user[k])]
    /\ stats' = [stats EXCEPT ![k] =
           IF failAt \in 1..4 THEN @ ELSE GetCRMStats(user[k])]
    /\ UNCHANGED <<storeVars, user, pc, selectedEmpresa, empresaForm, modalVars,
                   deleteLocals, caught, rejected>>
    /\ UNCHANGED <<procVars, authVars>>
    /\ UNCHANGED <<historyDialogVars, quickVars, exportVars, cardVars, historyQueryVars, cepVars, observerVars, confirmVars>>

\* two users' dashboards over the shared store
NextCrmLists ==
    \/ \E k \in Sessions, u \in UserIds : MountCRMDashboard(k, u)
    \/ \E k \in Sessions, failAt \in 0..4 : LoadCRMLists(k, failAt)
    \/ \E k \in Sessions, nome \in Nomes : HandleSaveEmpresaNew(k, nome)
    \/ \E k \in Sessions, e \in EmpresaIds : HandleSaveContato(k, e)
    \/ \E k \in Sessions, e \in EmpresaIds : HandleSaveLog(k, e)

SpecCrmLists == Init /\ [][NextCrmLists]_vars

\* ---------------------------------------------------- the confirmation dialog
\* a resolve that replaces the value of a settled promise
ResolveOverwrites(value, v) == v

\* the resolve function of a Promise: only the first call settles it
Resolve(value, v) == IF value = "pending" THEN v ELSE value

\* state.resolve?.(v) of the hook's handleConfirm / handleCancel
StateResolve(k, cs, v) ==
    IF confirmState[k].resolve = 0 THEN cs
    ELSE [cs EXCEPT ![confirmState[k].resolve].value = Resolve(@, IF v THEN "true" ELSE "false")]

\* useConfirmDialog.confirm, called by handleDeleteProcess: a new promise
\* whose resolve is kept in the hook's state, and the dialog opens
Confirm(k) ==
    /\ ppc[k] = "confirm"
    /\ awaited[k] = 0
    /\ Len(confirms[k]) < MaxConfirms
    /\ confirms' = [confirms EXCEPT ![k] = Append(@, NewConfirm)]
    /\ awaited' = [awaited EXCEPT ![k] = Len(confirms[k]) + 1]
    /\ confirmState' = [confirmState EXCEPT ![k] =
           [open |-> TRUE, resolve |-> Len(confirms[k]) + 1]]
    /\ UNCHANGED <<user, crmVars, procVars, authVars>>
    /\ UNCHANGED <<historyDialogVars, quickVars, exportVars, cardVars, historyQueryVars, cepVars, observerVars, crmListVars>>

\* a button or a dismissal of the open dialog
Pressed(k, button) ==
    [confirms[k] EXCEPT ![confirmState[k].resolve].pressed = button]

\* the confirm button: ConfirmDialog.handleConfirm calls onConfirm (the
\* hook's handleConfirm: resolve(true)) and then onOpenChange(false) (the
\* hook's handleCancel: resolve(false))
DialogConfirm(k) ==
    /\ confirmState[k].open
    /\ confirms' = [confirms EXCEPT ![k] =
           StateResolve(k, StateResolve(k, Pressed(k, "confirm"), TRUE), FALSE)]
    /\ confirmState' = [confirmState EXCEPT ![k].open = FALSE]
    /\ UNCHANGED awaited
    /\ UNCHANGED <<user, crmVars, procVars, authVars>>
    /\ UNCHANGED <<historyDialogVars, quickVars, exportVars, cardVars, historyQueryVars, cepVars, observerVars, crmListVars>>

\* the cancel button: ConfirmDialog.handleClose calls onOpenChange(false) and
\* onCancel, both the hook's handleCancel
DialogCancel(k) ==
    /\ confirmState[k].open
    /\ confirms' = [confirms EXCEPT ![k] =
           StateResolve(k, StateResolve(k, Pressed(k, "cancel"), FALSE), FALSE)]
    /\ confirmState' = [confirmState EXCEPT ![k].open = FALSE]
    /\ UNCHANGED awaited
    /\ UNCHANGED <<user, crmVars, procVars, authVars>>
    /\ UNCHANGED <<historyDialogVars, quickVars, exportVars, cardVars, historyQueryVars, cepVars, observerVars, crmListVars>>

\* Escape or a click outside: Dialog's onOpenChange(false), the hook's
\* handleCancel
DialogDismiss(k) ==
    /\ confirmState[k].open
    /\ confirms' = [confirms EXCEPT ![k] = StateResolve(k, Pressed(k, "dismiss"), FALSE)]
    /\ confirmState' = [confirmState EXCEPT ![k].open = FALSE]
    /\ UNCHANGED awaited
    /\ UNCHANGED <<user, crmVars, procVars, authVars>>
    /\ UNCHANGED <<historyDialogVars, quickVars, exportVars, cardVars, historyQueryVars, cepVars, observerVars, crmListVars>>

\* handleDeleteProcess after await confirm(...): if (!confirmed) return;
\* otherwise processService.deleteProcess(processId) is called
AwaitConfirm(k) ==
    /\ ppc[k] = "confirm"
    /\ awaited[k] # 0
    /\ confirms[k][awaited[k]].value # "pending"
    /\ IF confirms[k][awaited[k]].value = "true"
       THEN /\ ppc' = [ppc EXCEPT ![k] = "delete_deleteDoc"]
            /\ confirms' = [confirms EXCEPT ![k][awaited[k]].deletes = @ + 1]
            /\ UNCHANGED processId
       ELSE /\ ppc' = [ppc EXCEPT ![k] = "idle"]
            /\ processId' = [processId EXCEPT ![k] = 0]
            /\ UNCHANGED confirms
    /\ awaited' = [awaited EXCEPT ![k] = 0]
    /\ UNCHANGED confirmState
    /\ UNCHANGED <<procStore, viewProcesses, updateData, oldData, progressLocals,
                   toastDescription>>
    /\ UNCHANGED <<user, crmVars, authVars>>
    /\ UNCHANGED <<historyDialogVars, quickVars, exportVars, cardVars, historyQueryVars, cepVars, observerVars, crmListVars>>

\* creating and deleting contracts through the confirmation dialog
NextConfirm ==
    \/ \E k \in Sessions : SubscriptionCallback(k)
    \/ \E k \in Sessions, status \in Statuses : HandleSaveProcessNew(k, status)
    \/ \E k \in Sessions, fault \in BOOLEAN : CreateAddDoc(k, fault)
    \/ \E k \in Sessions, fault \in BOOLEAN : CreateAddToHistory(k, fault)
    \/ \E k \in Sessions, p \in ProcessIds : HandleDeleteProcess(k, p)
    \/ \E k \in Sessions : Confirm(k)
    \/ \E k \in Sessions : DialogConfirm(k)
    \/ \E k \in Sessions : DialogCancel(k)
    \/ \E k \in Sessions : DialogDismiss(k)
    \/ \E k \in Sessions : AwaitConfirm(k)
    \/ \E k \in Sessions, fault \in BOOLEAN : DeleteDeleteDoc(k, fault)
    \/ \E k \in Sessions, fault \in BOOLEAN : DeleteAddToHistory(k, fault)
    \/ \E k \in Sessions, fault \in BOOLEAN : DeleteGetProcesses(k, fault)

SpecConfirm == Init /\ [][NextConfirm]_vars

\* ===================================================================== claims
DelPcs == {"del_getDoc", "del_getContatos", "del_getLogs", "del_commit"}

\* what deleteEmpresa read is what the store still holds: no write by another
\* operation came between its reads and its commit
ReadsCurrent(k) ==
    /\ empresas[selectedEmpresa[k]].exists
    /\ empresaData[k] = empresas[selectedEmpresa[k]]
    /\ contatosSnapshot[k] = {c.id : c \in ContatosDe(selectedEmpresa[k])}
    /\ logsSnapshot[k] = {l.id : l \in LogsDe(selectedEmpresa[k])}

\* session k's commit was accepted in this step
CommitSucceeds(k) == pc[k] = "del_commit" /\ pc'[k] = "del_reload"
\* session k's commit was rejected in this step
CommitFailsStep(k) == pc[k] = "del_commit" /\ pc'[k] = "modal"

NewAudits == auditoria' \ auditoria

\* C1: a successful deleteEmpresa of an existing company with N contacts and
\* M logs that nothing interleaved with leaves the company absent, no contact
\* and no log of that company, and exactly one new audit record, whose
\* contatos_excluidos is N and logs_excluidos is M.
C1_DeleteCascade ==
    [][\A k \in Sessions :
         (CommitSucceeds(k) /\ ReadsCurrent(k)) =>
            LET e == selectedEmpresa[k] IN
            /\ ~empresas'[e].exists
            /\ {c \in contatos' : c.empresa_id = e} = {}
            /\ {l \in logs_informacao' : l.empresa_id = e} = {}
            /\ auditoria \subseteq auditoria'
            /\ Cardinality(NewAudits) = 1
            /\ \A a \in NewAudits :
                  /\ a.empresa_id = e
                  /\ a.empresa_nome = empresas[e].nome_fantasia
                  /\ a.contatos_excluidos = Cardinality(ContatosDe(e))
                  /\ a.logs_excluidos = Cardinality(LogsDe(e))]_vars

\* C1 witness: a deletion that removed at least one contact and one log has
\* just committed
C1_Witness ==
    \E k \in Sessions : \E a \in auditoria :
        /\ pc[k] = "del_reload"
        /\ a.empresa_id = selectedEmpresa[k]
        /\ a.contatos_excluidos >= 1
        /\ a.logs_excluidos >= 1
        /\ Cardinality(AuditoriaDe(selectedEmpresa[k])) = 1

\* C2: a deleteEmpresa whose batch commit fails changes nothing in the store:
\* company, contacts, logs and audit records are as before.
C2_FailedCommitAtomic ==
    [][\A k \in Sessions :
         CommitFailsStep(k) =>
            UNCHANGED <<empresas, contatos, logs_informacao, auditoria>>]_vars

\* C2 witness: a commit was rejected while the company had contacts and logs
C2_Witness ==
    \E k \in Sessions :
        /\ pc[k] = "modal"
        /\ caught[k] = VendorDenied
        /\ empresas[selectedEmpresa[k]].exists
        /\ ContatosDe(selectedEmpresa[k]) # {}
        /\ LogsDe(selectedEmpresa[k]) # {}

\* C3: deleteEmpresa for an id with no company document rejects and writes
\* nothing: the four collections are unchanged and the call is over.
C3_NotFoundRejects ==
    [][\A k \in Sessions :
         (pc[k] = "del_getDoc" /\ pc'[k] # "del_getDoc"
            /\ ~empresas[selectedEmpresa[k]].exists) =>
            /\ rejected'[k] # "none"
            /\ pc'[k] = "modal"
            /\ UNCHANGED <<empresas, contatos, logs_informacao, auditoria>>]_vars

\* C3 witness: a call found no company document
C3_Witness ==
    \E k \in Sessions :
        /\ caught[k] = MsgNaoEncontrada
        /\ rejected[k] # "none"
        /\ ~empresas[selectedEmpresa[k]].exists

\* company e was created and its document is gone
Deleted(e) == e < nextEmpresa /\ ~empresas[e].exists

\* C4: in every reachable state the number of audit records of a company is 1
\* if the company has been deleted and 0 otherwise.
C4_ExactlyOneAudit ==
    \A e \in EmpresaIds :
        Cardinality(AuditoriaDe(e)) = IF Deleted(e) THEN 1 ELSE 0

\* C5: a commit issued for a company another call has already deleted is not
\* re-validated: the store rejects it only for a fault of its own, and when it
\* accepts it the call completes without error, the deletes of the documents
\* already gone change nothing and one more audit record is written.
C5_SecondCommitAccepted ==
    [][\A k \in Sessions :
         (pc[k] = "del_commit" /\ pc'[k] # "del_commit"
            /\ ~empresas[selectedEmpresa[k]].exists) =>
            \/ /\ pc'[k] = "modal"
               /\ caught'[k] = VendorDenied
            \/ /\ pc'[k] = "del_reload"
               /\ rejected'[k] = "none"
               /\ empresas' = empresas
               /\ contatos' = {c \in contatos : c.id \notin contatosSnapshot[k]}
               /\ logs_informacao' = {l \in logs_informacao : l.id \notin logsSnapshot[k]}
               /\ Cardinality(NewAudits) = 1]_vars

\* C5 witness: two calls for the same company have both committed
C5_Witness ==
    \E k1, k2 \in Sessions :
        /\ k1 # k2
        /\ pc[k1] = "del_reload" /\ pc[k2] = "del_reload"
        /\ selectedEmpresa[k1] = selectedEmpresa[k2]
        /\ rejected[k1] = "none" /\ rejected[k2] = "none"
        /\ Cardinality(AuditoriaDe(selectedEmpresa[k1])) = 2

\* C6: deleteEmpresa starts only when the sign-in with the entered password
\* has just succeeded; a failed sign-in returns to the modal with the store
\* unchanged, and while deleteEmpresa runs the sign-in outcome is success.
C6_DeleteOnlyAfterReauth ==
    [][\A k \in Sessions :
         /\ (pc'[k] = "del_getDoc" /\ pc[k] # "del_getDoc") =>
               (pc[k] = "reauth" /\ reauth'[k] = "ok")
         /\ (pc'[k] \in DelPcs) => reauth'[k] = "ok"
         /\ (pc[k] = "reauth" /\ pc'[k] # "reauth" /\ reauth'[k] # "ok") =>
               (pc'[k] = "modal" /\ UNCHANGED storeVars)
         /\ (pc[k] = "modal" /\ pc'[k] \notin {"modal", "idle", "reauth"}) => FALSE]_vars

\* C6 witness: a sign-in with a wrong password has failed
C6_Witness ==
    \E k \in Sessions :
        /\ pc[k] = "modal"
        /\ reauth[k] = "auth/wrong-password"
        /\ validationError[k] = MsgSenhaIncorreta
        /\ empresas[selectedEmpresa[k]].exists

\* C7: the modal's password-validation error is never set when the sign-in
\* succeeded (a failure of deleteEmpresa is reported apart from it).
C7_ValidationErrorOnlyOnReauthFailure ==
    \A k \in Sessions : reauth[k] = "ok" => validationError[k] = ""

\* C8: the error deleteEmpresa rejects with is the error that was raised,
\* unchanged.
C8_ErrorSurfacedUnchanged ==
    \A k \in Sessions : rejected[k] = caught[k]

\* the messages the services and handlers fix themselves
DomainMessages ==
    {"none", MsgContratoCriado, MsgContratoAtualizado, MsgContratoExcluido,
     MsgSalvarContrato, MsgExcluirContrato, MsgContratoConcluido,
     MsgConcluirContrato, MsgAndamentoSalvo, MsgRegistrarAndamento}

\* C9: whatever persistence call of the process service fails, the message
\* the Dashboard shows is one of the fixed domain messages, never the
\* vendor's.
C9_DomainMessagesOnly ==
    \A k \in Sessions : toastDescription[k] \in DomainMessages

\* C10: an audit record, once written, is in every later state with the same
\* fields.
C10_AuditImmutable ==
    [][\A a \in auditoria : a \in auditoria']_vars

\* C10 witness: an audit record exists and operations ran after it was
\* written (its company's deleter is back to idle)
C10_Witness ==
    /\ auditoria # {}
    /\ \A k \in Sessions : pc[k] = "idle"
    /\ Cardinality(auditoria) >= 2

\* ------------------------------------------------------- contract history
\* C11: a history entry, once written, is in every later state unchanged:
\* no create, update, completion, progress update or delete of a contract
\* modifies or removes an entry; the collection only grows.
C11_HistoryAppendOnly ==
    [][process_history \subseteq process_history']_vars

\* C11 witness: a contract with a history of three entries, the last written
\* by its deletion
C11_Witness ==
    /\ Cardinality(process_history) >= 3
    /\ \E h \in process_history : h.action = "deleted"
    /\ \E h \in process_history : h.action = "created"

\* ProcessHistory['action']
ActionKinds == {"created", "updated", "status_changed", "progress_update"}

\* C12: every entry of the history collection has an action kind among
\* created, updated, status_changed and progress_update.
C12_ActionKindsOnly ==
    \A h \in process_history : h.action \in ActionKinds

\* session k's quick update writes the contract document in this step
ProgressWrites(k) == ppc[k] = "progress_updateDoc" /\ ppc'[k] = "progress_history"

\* C13: the numero_processo of a contract changes only in the document write
\* of a progress update whose montou_processo is true and whose entered
\* number is non-blank after trimming, and becomes that trimmed number; a
\* created contract has none, and edit and completion leave it as it is.
C13_NumeroOnlyWhenFiled ==
    [][\A p \in ProcessIds :
         /\ (~processes[p].exists /\ processes'[p].exists) =>
               processes'[p].numero_processo = NoNumero
         /\ (processes[p].exists /\ processes'[p].exists
               /\ processes'[p].numero_processo # processes[p].numero_processo) =>
               \E k \in Sessions :
                  /\ ProgressWrites(k)
                  /\ processId[k] = p
                  /\ progressData[k].montou_processo
                  /\ Trim(progressData[k].numero_processo) # <<>>
                  /\ processes'[p].numero_processo = Trim(progressData[k].numero_processo)]_vars

\* C13 witness: a contract carries a number and was completed afterwards
C13_Witness ==
    \E p \in ProcessIds :
        /\ processes[p].exists
        /\ processes[p].numero_processo = <<"7">>
        /\ processes[p].status = "concluido"
        /\ \E h \in process_history :
              /\ h.process_id = p /\ h.action = "updated"
              /\ h.old_values.numero_processo = <<"7">>

\* ------------------------------------------------------------- ownership
\* C14: in every state each contact and each information log has an
\* empresa_id whose company document exists.
C14_NoOrphans ==
    /\ \A c \in contatos : empresas[c.empresa_id].exists
    /\ \A l \in logs_informacao : empresas[l.empresa_id].exists

\* the history entries of contract p
HistoryOf(p) == {h \in process_history : h.process_id = p}

\* C15: deleteProcess removes the contract document and nothing else: the
\* other contracts and every history entry, those of the deleted contract
\* included, are unchanged by its deleteDoc, and its own history write only
\* adds an entry.
C15_DeleteKeepsHistory ==
    [][\A k \in Sessions :
         /\ (ppc[k] = "delete_deleteDoc" /\ ppc'[k] = "delete_history") =>
               /\ ~processes'[processId[k]].exists
               /\ \A p \in ProcessIds \ {processId[k]} : processes'[p] = processes[p]
               /\ process_history' = process_history
         /\ (ppc[k] = "delete_history" /\ ppc'[k] = "delete_reload") =>
               /\ HistoryOf(processId[k]) \subseteq process_history'
               /\ UNCHANGED processes]_vars

\* C15 witness: a contract is gone and the entries written at its creation
\* and at its deletion are both in the history
C15_Witness ==
    \E p \in ProcessIds :
        /\ p < nextProcess
        /\ ~processes[p].exists
        /\ \E h \in HistoryOf(p) : h.action = "created"
        /\ \E h \in HistoryOf(p) : h.action = "deleted"
        /\ \A k \in Sessions : ppc[k] = "idle"

\* C16: updateProcess writes the contract and its history entry in two
\* separate steps: the step that changes a contract's status writes no
\* history; when the history write then fails the contract stays as updated
\* and no entry is written; and an 'updated' entry is only ever written by
\* the history step of the update it belongs to, so nothing fills the gap
\* later.
C16_UpdateThenHistoryNotAtomic ==
    [][/\ \A p \in ProcessIds :
            (processes[p].exists /\ processes'[p].exists
               /\ processes'[p].status # processes[p].status) =>
               process_history' = process_history
       /\ \A k \in Sessions :
            (ppc[k] = "update_history" /\ ppc'[k] = "idle"
               /\ toastDescription'[k] = VendorError) =>
               /\ processes' = processes
               /\ process_history' = process_history
       /\ \A h \in process_history' \ process_history :
            h.action = "updated" =>
               \E k \in Sessions :
                  /\ ppc[k] = "update_history" /\ ppc'[k] = "idle"
                  /\ h.process_id = processId[k]
                  /\ h.new_values.status = updateData[k]]_vars

\* C16 witness: every handler has ended, a contract created as 'pendente' is
\* 'concluido', and no history entry records that status
C16_Witness ==
    \E p \in ProcessIds :
        /\ \A k \in Sessions : ppc[k] = "idle"
        /\ processes[p].exists
        /\ processes[p].status = "concluido"
        /\ \E h \in HistoryOf(p) :
              h.action = "created" /\ h.new_values.status = "pendente"
        /\ \A h \in HistoryOf(p) : h.new_values.status # "concluido"
        /\ \E k \in Sessions : toastDescription[k] = VendorError

\* ------------------------------------------------------- concurrent edits
\* the store can apply session k's pending company update as submitted
EmpresaUpdateApplicable(k) ==
    ENABLED (/\ UpdateEmpresaSettles(k, FALSE)
             /\ empresas'[selectedEmpresa[k]].nome_fantasia = empresaForm[k])

\* the store can apply session k's pending contract update as submitted
ProcessUpdateApplicable(k) ==
    ENABLED (/\ UpdateUpdateDoc(k, FALSE)
             /\ processes'[processId[k]].status = updateData[k])

\* C17: an update of an existing company or contract is never blocked or
\* rejected because of another session's edit: whatever was written in
\* between, the pending update can be applied, and when the store answers
\* the update either the document is as it was (a fault of the store) or
\* the fields the update wrote hold the submitted values and the other
\* fields are kept.
C17_LastWriteWins ==
    /\ [](\A k \in Sessions :
            /\ (pc[k] = "save_updateDoc" /\ empresas[selectedEmpresa[k]].exists) =>
                  EmpresaUpdateApplicable(k)
            /\ (ppc[k] = "update_updateDoc" /\ processes[processId[k]].exists) =>
                  ProcessUpdateApplicable(k))
    /\ [][\A k \in Sessions :
            /\ (pc[k] = "save_updateDoc" /\ pc'[k] = "idle"
                  /\ empresas[selectedEmpresa[k]].exists) =>
                  \/ empresas' = empresas
                  \/ empresas' = [empresas EXCEPT ![selectedEmpresa[k]].nome_fantasia =
                                     empresaForm[k]]
            /\ (ppc[k] = "update_updateDoc" /\ ppc'[k] # "update_updateDoc"
                  /\ processes[processId[k]].exists) =>
                  \/ toastDescription'[k] = VendorError /\ processes' = processes
                  \/ processes' = [processes EXCEPT ![processId[k]].status =
                                      updateData[k]]]_vars

\* C17 witness: two edits of one contract that read the same document have
\* both been applied, the stored status being one of the two written, while
\* both sessions have submitted different names for the same company
C17_Witness ==
    /\ \E h1, h2 \in process_history :
          /\ h1.action = "updated" /\ h2.action = "updated"
          /\ h1.process_id = h2.process_id
          /\ h1.old_values = h2.old_values
          /\ h1.new_values.status # h2.new_values.status
          /\ h1.new_values.status # h1.old_values.status
          /\ h2.new_values.status # h1.old_values.status
          /\ processes[h1.process_id].status
                \in {h1.new_values.status, h2.new_values.status}
    /\ \E k1, k2 \in Sessions :
          /\ pc[k1] = "save_updateDoc" /\ pc[k2] = "save_updateDoc"
          /\ selectedEmpresa[k1] = selectedEmpresa[k2]
          /\ empresaForm[k1] # empresaForm[k2]
          /\ empresas[selectedEmpresa[k1]].exists

\* handleSave's toasts when the password change failed: the error toast of
\* the password change, then the success toast of the profile
ErrorThenSuccess(ts) ==
    /\ Len(ts) = 2
    /\ ts[1].title = MsgErroAlterarSenha
    /\ ts[2] = Toast(MsgPerfilAtualizado, "")

\* C18: every document of 'users', all of them created by the registration
\* flow, has role 'admin', whatever role the caller of register supplied
\* (also none, which authService.register alone would default to 'user').
C18_RegisteredRoleAdmin ==
    \A u \in Uids : users[u].exists => users[u].role = "admin"

\* C18 witness: a registration whose caller supplied role 'user' has written
\* its user document
C18_Witness ==
    \E k \in Sessions :
        /\ upc[k] = "login_signIn"
        /\ credentials[k].role = "user"
        /\ users[credentials[k].email].exists

\* C19: once the profile has been saved, a failing password change (no
\* signed-in user, re-authentication rejected, updatePassword rejected)
\* leaves the 'users' document as saved, and handleSave ends with the
\* password error toast followed by the profile success toast.
C19_ProfileKeptPasswordFailureSeparate ==
    [][\A k \in Sessions :
          /\ (upc[k] = "save_updateUser" /\ upc'[k] = "pw_reauthenticate") =>
                users'[profileForm[k].uid].name = Trim(profileForm[k].name)
          /\ (upc[k] = "save_updateUser" /\ upc'[k] = "idle"
                /\ Len(toasts'[k]) > 0 /\ toasts'[k][1].title = MsgErroAlterarSenha) =>
                /\ users'[profileForm[k].uid].name = Trim(profileForm[k].name)
                /\ ErrorThenSuccess(toasts'[k])
          /\ (upc[k] = "pw_reauthenticate" /\ upc'[k] = "idle") =>
                /\ users' = users
                /\ ErrorThenSuccess(toasts'[k])
          /\ (upc[k] = "pw_updatePassword" /\ upc'[k] = "idle") =>
                /\ users' = users
                /\ \/ toasts'[k] = PasswordChanged
                   \/ ErrorThenSuccess(toasts'[k]) /\ accounts' = accounts]_vars

\* C19 witness: handleSave has ended with the wrong-password error followed
\* by the profile success, and the document holds the name it saved
C19_Witness ==
    \E k \in Sessions :
        /\ upc[k] = "idle"
        /\ toasts[k] = PasswordFailed("auth/wrong-password")
        /\ currentUserId[k] # NoUid
        /\ users[currentUserId[k]].name = Trim(NomeBo)

\* C20: a password of an account changes only in the updatePassword step of
\* a changePassword whose re-authentication succeeded; changePassword reaches
\* updatePassword only through a successful re-authentication with the
\* account's current password; a rejected re-authentication, or no signed-in
\* user, ends it with the accounts unchanged.
C20_ReauthBeforeUpdatePassword ==
    [][/\ \A e \in Emails :
            (accounts[e].exists /\ accounts'[e] # accounts[e]) =>
                \E k \in Sessions :
                    /\ upc[k] = "pw_updatePassword" /\ upc'[k] = "idle"
                    /\ reauthenticated[k] = "ok"
                    /\ pwUser[k] = e
                    /\ accounts'[e].password = profileForm[k].newPassword
       /\ \A k \in Sessions :
            /\ (upc[k] = "pw_reauthenticate" /\ upc'[k] # upc[k]) =>
                  /\ accounts' = accounts
                  /\ upc'[k] = "pw_updatePassword" =>
                        /\ reauthenticated'[k] = "ok"
                        /\ accounts[pwUser[k]].password = profileForm[k].currentPassword
            /\ (upc[k] = "save_updateUser" /\ upc'[k] # upc[k] /\ authUser[k] = NoUid) =>
                  /\ accounts' = accounts
                  /\ upc'[k] = "idle"]_vars

\* C20 witness: one session has changed the password after re-authenticating,
\* and the other, whose current password no longer matched, was rejected and
\* left the new password in place
C20_Witness ==
    \E k1, k2 \in Sessions :
        /\ toasts[k1] = PasswordChanged
        /\ toasts[k2] = PasswordFailed("auth/wrong-password")
        /\ \E e \in Emails : accounts[e].exists /\ accounts[e].password = Senha2

\* the fields of the new snapshot whose value differs from the old snapshot's,
\* a field the old snapshot lacks counting as changed from 'vazio'
ChangedFields(old, new) ==
    {[field |-> key,
      from |-> FormatValue(ValueOf(old, key)),
      to |-> FormatValue(new.fields[key])] :
     key \in {k \in DOMAIN new.fields : ValueOf(old, k) # new.fields[k]}}

\* C21: for a rendered entry that is not a progress_update, the change set
\* computed by formatChanges is exactly the fields of the new snapshot whose
\* value differs from the old snapshot's, a field absent from the old
\* snapshot counting as changed from 'vazio'.
C21_ChangeSetIsDiff ==
    newValues.present => changes.list = ChangedFields(oldValues, newValues)

\* C26: every progress_update entry written through the dialog has a date
\* and a non-blank place in its new values, and has numero_processo exactly
\* when its montou_processo is true.
C26_ProgressEntryWellFormed ==
    \A nv \in quickHistory :
        /\ nv.data # ""
        /\ nv.local # <<>> /\ Trim(nv.local) # <<>>
        /\ ("numero_processo" \in DOMAIN nv) <=> nv.montou_processo

\* C26 witness: the dialog has written an entry of a filed process, whose
\* number was typed with blanks around it, and an entry of one not filed
C26_Witness ==
    /\ \E nv \in quickHistory :
          nv.montou_processo /\ "numero_processo" \in DOMAIN nv
    /\ \E nv \in quickHistory :
          ~nv.montou_processo /\ "numero_processo" \notin DOMAIN nv

\* the indexes of the progress_update entries of a history
ProgressEntries(history) ==
    {i \in 1..Len(history) : history[i].action = "progress_update"}

\* C22: the sheet of an exported contract has the contract's row and one row
\* per progress_update entry of the history and none for other entries, its
\* rows are in ascending order of date, and the status column of the row of
\* an entry that has a note is the note.
C22_SheetRows ==
    exportProcess # NoExportProcess =>
        /\ Len(formattedRows) = 1 + Cardinality(ProgressEntries(exportHistory))
        /\ Len(rows) = Len(formattedRows)
        /\ {rows[i].entry : i \in 1..Len(rows)} = {0} \cup ProgressEntries(exportHistory)
        /\ \A i, j \in 1..Len(rows) :
              i < j => GetTime(rows[i].data) <= GetTime(rows[j].data)
        /\ \A i \in 1..Len(rows) :
              /\ formattedRows[i][1] = ToLocaleDateString(rows[i].data)
              /\ rows[i].entry = 0 =>
                    /\ formattedRows[i][1] = <<exportProcess.data.day,
                                               exportProcess.data.month,
                                               exportProcess.data.year>>
                    /\ formattedRows[i][2] = exportProcess.local
              /\ rows[i].entry # 0 =>
                    LET entry == exportHistory[rows[i].entry]
                    IN /\ formattedRows[i][1] = <<entry.data.day, entry.data.month,
                                                  entry.data.year>>
                       /\ formattedRows[i][2] = entry.local
                       /\ entry.notes # <<>> => formattedRows[i][3] = entry.notes

\* C22 witness: a contract exported with three progress updates pushed out of
\* date order, one of them with a note, and an entry of another kind
C22_Witness ==
    /\ Len(formattedRows) = 4
    /\ Len(exportHistory) = 3
    /\ GetTime(CreateDateFromString(exportHistory[1].data))
          > GetTime(CreateDateFromString(exportHistory[2].data))
    /\ exportHistory[1].notes = <<"nota">>
    /\ formattedRows[1][3] = <<"Andamento registrado">>

\* C23: a contract whose stored status is 'concluido' receives no progress
\* update: no progress write lands on it and no progress_update entry is
\* appended for it, whichever session submits and whenever its dialog was
\* opened
C23_NoProgressOnConcluido ==
    [][\A k \in Sessions :
          (ppc[k] \in {"progress_updateDoc", "progress_history"} /\ ppc'[k] # ppc[k]
           /\ (processes' # processes \/ process_history' # process_history))
          => processes[processId[k]].status # "concluido"]_vars

\* C24: getProcessHistory(p) returns exactly the entries whose process_id is
\* p, each once, ordered from the most recent updated_at to the oldest, an
\* entry without a usable timestamp coming after every entry that has one
C24_HistoryOfProcessNewestFirst ==
    historyArg # 0 =>
        /\ {historyResult[i].id : i \in DOMAIN historyResult} =
               {i \in DOMAIN historyDocs : historyDocs[i].process_id = historyArg}
        /\ \A i, j \in DOMAIN historyResult :
              /\ i # j => historyResult[i].id # historyResult[j].id
              /\ historyResult[i].process_id = historyDocs[historyResult[i].id].process_id
              /\ historyResult[i].updated_at = historyDocs[historyResult[i].id].updated_at
              /\ (i < j /\ historyResult[i].updated_at.usable /\ historyResult[j].updated_at.usable)
                     => historyResult[i].updated_at.seconds >= historyResult[j].updated_at.seconds
              /\ (i < j /\ ~historyResult[i].updated_at.usable)
                     => ~historyResult[j].updated_at.usable

\* a history of three entries of the asked contract, stored oldest first with
\* one entry lacking a timestamp, next to an entry of another contract
C24_Witness ==
    /\ historyArg = 1
    /\ Len(historyResult) = 2
    /\ Len(historyDocs) = 3
    /\ historyDocs[1].process_id = 1 /\ ~historyDocs[1].updated_at.usable
    /\ historyDocs[2].process_id = 2
    /\ historyDocs[3].process_id = 1 /\ historyDocs[3].updated_at.usable
    /\ historyResult[1].id = 3

\* C25: when updateProcess applies its update, the snapshots it records in
\* the 'updated' entry (old_values from the document it read, new_values
\* from that document merged with the update) are the contract's stored
\* state just before the update and its stored state just after it
C25_UpdatedEntrySnapshots ==
    [][\A k \in Sessions :
          (ppc[k] = "update_updateDoc" /\ ppc'[k] = "update_history")
          => /\ SanitizeForHistory(oldData[k]) =
                    SanitizeForHistory(processes[processId[k]])
             /\ SanitizeForHistory([oldData[k] EXCEPT !.status = updateData[k]]) =
                    SanitizeForHistory(processes'[processId[k]])]_vars

\* C27: the answer of a lookup started for a postal code other than the one
\* entered last changes neither the CEP field nor the address fields of the
\* form
C27_LateResponseIgnored ==
    [][\A r \in lookups :
          (r \notin lookups' /\ r.cleanCEP # CleanCEP(cepEntered))
          => endereco' = endereco]_vars

\* C28: whenever login or the observer puts a user into the context's
\* currentUser, that account's user document exists and has is_active = true
C28_CurrentUserIsActive ==
    [][\A k \in Sessions :
          (currentUserId'[k] # NoUid /\ currentUserId'[k] # currentUserId[k])
          => /\ users[currentUserId'[k]].exists
             /\ is_active[currentUserId'[k]]]_vars

\* C29: every company, contact and information log loaded into a session's
\* CRM dashboard was created by the session's user
C29_OnlyOwnRecords ==
    \A k \in Sessions :
        /\ \A e \in viewEmpresas[k] : empresas[e].created_by = user[k]
        /\ \A c \in viewContatos[k] : c.created_by = user[k]
        /\ \A l \in viewLogs[k] : l.created_by = user[k]

\* C30: deleteProcess is called at most once per confirm() call and only
\* when that call's promise settled with true; the promise settles with true
\* exactly when the dialog was closed with the confirm button, and with
\* false, without any deletion, when it was cancelled or dismissed; a
\* handler that is inside deleteProcess has had its confirmation
C30_DeleteOnlyAfterConfirm ==
    \A k \in Sessions :
        /\ \A n \in DOMAIN confirms[k] :
              /\ confirms[k][n].deletes <= 1
              /\ confirms[k][n].deletes = 1 => confirms[k][n].value = "true"
              /\ confirms[k][n].value = "true" <=> confirms[k][n].pressed = "confirm"
              /\ confirms[k][n].value = "false" <=>
                     confirms[k][n].pressed \in {"cancel", "dismiss"}
              /\ confirms[k][n].value = "false" => confirms[k][n].deletes = 0
        /\ ppc[k] \in {"delete_deleteDoc", "delete_history", "delete_reload"}
              => /\ confirms[k] # <<>>
                 /\ confirms[k][Len(confirms[k])].value = "true"
                 /\ confirms[k][Len(confirms[k])].deletes = 1

\* one session cancelled a first dialog, confirmed a second one and its
\* deleteProcess removed the contract
C30_Witness ==
    \E k \in Sessions :
        /\ Len(confirms[k]) = 2
        /\ confirms[k][1].pressed \in {"cancel", "dismiss"}
        /\ confirms[k][2].pressed = "confirm"
        /\ confirms[k][2].deletes = 1
        /\ ppc[k] = "delete_history"
        /\ ~processes[1].exists
====
